---- MODULE Spec2Model ----
(***************************************************************************)
(* A model of the sunset locator's solar position code (src/src/spa.js,    *)
(* src/src/util.js, with the Delta-T table of src/src/index.js).           *)
(*                                                                         *)
(* Two specifications share the module:                                    *)
(*   CalcSpec  applies the pure functions (limit_degrees, deltaT,          *)
(*             julianDay, julianCentury, ...) to inputs drawn from bounded  *)
(*             sets and records each call in `calc`;                       *)
(*   Spec      is the life of the application's snapshot: `new SPA(...)`   *)
(*             and sunRiseSetTransit(spa), recorded in `spa` and `out`.    *)
(*                                                                         *)
(* Numbers.  JavaScript numbers are IEEE-754 doubles.  The degree          *)
(* normalisers are modelled in binary floating point with FloatBits bits   *)
(* of significand and round-to-nearest-even after every operation, a float *)
(* being held as the exact reduced rational [n, d].  Times are exact:      *)
(* a Julian day is [day, tick], day whole and tick in 1e-4 s.              *)
(***************************************************************************)
EXTENDS Integers, Sequences, FiniteSets, TLC

VARIABLES calc, spa, out, map, keys, dt, event, page

\* The variables of the page: the Map of map.js, its `keys`, the value of
\* the input "dt", the last event dispatched, and the module state of
\* index.js.
ui == <<map, keys, dt, event, page>>

vars == <<calc, spa, out, ui>>

(***************************************************************************)
(* JavaScript values that are not plain numbers                            *)
(***************************************************************************)
Undefined == [t |-> "undefined"]
Null == [t |-> "null"]
NaN == [t |-> "nan"]
\* A number whose value the model keeps (v) ...
Num(v) == [t |-> "num", v |-> v]
\* ... and a finite number whose value the model does not keep.
Fin == [t |-> "fin"]

IsNumber(x) == x.t \in {"num", "fin"}

\* No call made yet, no snapshot constructed yet, no operation run yet.
NoCall == [fn |-> "none"]

NoSpa == [t |-> "none"]

NoOut == [op |-> "none"]

NoMap == [t |-> "none"]

NoKeys == <<>>

NoInput == <<>>

NoEvent == [type |-> "none"]

NoPage == [t |-> "none"]

\* The page is not loaded.
NoUi == map = NoMap /\ keys = NoKeys /\ dt = NoInput /\ event = NoEvent /\ page = NoPage

Abs(x) == IF x < 0 THEN -x ELSE x

RECURSIVE GCD(_, _)
GCD(a, b) == IF b = 0 THEN a ELSE GCD(b, a % b)

RECURSIVE Pow2(_)
Pow2(k) == IF k = 0 THEN 1 ELSE 2 * Pow2(k - 1)

\* The element of a one-element set.  Only({ e(x) : x \in {v} }) is e(v) with
\* v evaluated once: a call's value bound to a name, as a `const x = v` of the
\* source.
Only(S) == CHOOSE r \in S : TRUE

(***************************************************************************)
(* Floating point: FloatBits bits of significand, round to nearest even    *)
(***************************************************************************)
\* Significand width of the modelled floating point format.
FloatBits == 8

\* Largest significand of a drawn input x = m * 2^e.
MaxSignificand == 63

\* Exponents e of the drawn inputs.
InputExponents == (-3) .. 4

\* The reduced rational n/d (d > 0).
Rat(n, d) == LET g == GCD(Abs(n), d) IN [n |-> n \div g, d |-> d \div g]

Zero == Rat(0, 1)

RatLess(a, b) == a.n * b.d < b.n * a.d

RatLeq(a, b) == a.n * b.d <= b.n * a.d

RatAbs(a) == [n |-> Abs(a.n), d |-> a.d]

RatAdd(a, b) == Rat(a.n * b.d + b.n * a.d, a.d * b.d)

RatSub(a, b) == Rat(a.n * b.d - b.n * a.d, a.d * b.d)

RatMul(a, b) == Rat(a.n * b.n, a.d * b.d)

\* x / y for x >= 0, y > 0, rounded to the nearest integer, ties to even.
RoundHalfEven(x, y) ==
  LET q == x \div y
      r == x - q * y
  IN IF 2 * r < y THEN q
     ELSE IF 2 * r > y THEN q + 1
     ELSE IF q % 2 = 0 THEN q ELSE q + 1

\* The least e >= 0 with a < top * 2^e.
RECURSIVE ShiftDown(_, _, _)
ShiftDown(a, top, e) == IF a < top * Pow2(e) THEN e ELSE ShiftDown(a, top, e + 1)

\* The least j >= 0 with a * 2^j >= low.
RECURSIVE ShiftUp(_, _, _)
ShiftUp(a, low, j) == IF a * Pow2(j) >= low THEN j ELSE ShiftUp(a, low, j + 1)

\* The float nearest to the rational q: its significand is brought into
\* [2^(FloatBits-1), 2^FloatBits) and rounded half to even.
fround(q) ==
  IF q.n = 0 THEN q
  ELSE LET a == Abs(q.n)
           s == IF q.n < 0 THEN -1 ELSE 1
           low == Pow2(FloatBits - 1) * q.d
       IN IF a >= 2 * low
          THEN LET e == ShiftDown(a, 2 * low, 0)
               IN Rat(s * RoundHalfEven(a, q.d * Pow2(e)) * Pow2(e), 1)
          ELSE LET j == ShiftUp(a, low, 0)
               IN Rat(s * RoundHalfEven(a * Pow2(j), q.d), Pow2(j))

\* JavaScript's + - * / on doubles: the exact result, rounded.
fadd(a, b) == fround(RatAdd(a, b))

fsub(a, b) == fround(RatSub(a, b))

fmul(a, b) == fround(RatMul(a, b))

\* b > 0 in every use (the limit).
fdiv(a, b) == fround(Rat(a.n * b.d, a.d * b.n))

\* Math.floor is exact.
floor(a) == Rat(a.n \div a.d, 1)

Deg360 == Rat(360, 1)

Deg180 == Rat(180, 1)

\* limit_degrees(degrees, limit = 360), src/src/util.js.
limit_degrees(degrees, limit) ==
  LET d == fdiv(degrees, limit)
      limited == fmul(limit, fsub(d, floor(d)))
  IN IF RatLess(limited, Zero) THEN fadd(limited, limit) ELSE limited

\* parseInt(x) of a number whose decimal form has no exponent: the digits
\* before the point, that is x truncated towards zero.
parseInt(x) == IF x.n < 0 THEN Rat(-((-x.n) \div x.d), 1) ELSE Rat(x.n \div x.d, 1)

\* The current heliocentricLongitude(jme) from the value of
\* rad2deg(long_rad) on: limit_degrees with its default limit.
heliocentricLongitude(degrees) == limit_degrees(degrees, Deg360)

\* The earlier heliocentricLongitude(d) from its constant maybeDegrees on:
\* the normalisation written out by hand.
heliocentricLongitude_byHand(maybeDegrees) ==
  IF RatLeq(maybeDegrees, Deg360) /\ RatLeq(Zero, maybeDegrees) THEN maybeDegrees
  ELSE LET frac == fsub(fdiv(maybeDegrees, Deg360), parseInt(fdiv(maybeDegrees, Deg360)))
       IN IF frac = Zero THEN Zero
          ELSE IF RatLess(frac, Zero) THEN fsub(Deg360, fmul(Rat(260, 1), frac))
          ELSE fmul(Deg360, frac)

\* limit_degrees180pm without its second branch: the value stays in [0, 360].
limit_degrees180pm_unfolded(degrees) ==
  LET d == fdiv(degrees, Deg360)
  IN fmul(Deg360, fsub(d, floor(d)))

\* limit_degrees180pm(degrees), src/src/util.js.
limit_degrees180pm(degrees) ==
  LET d == fdiv(degrees, Deg360)
      limited == fmul(Deg360, fsub(d, floor(d)))
  IN IF RatLess(limited, Rat(-180, 1)) THEN fadd(limited, Deg360)
     ELSE IF RatLess(Deg180, limited) THEN fsub(limited, Deg360)
     ELSE limited

\* The finite doubles the calls are drawn from: m * 2^e.
FloatInputs ==
  { Rat(m * Pow2(e + 3), 8) :
      m \in (-MaxSignificand) .. MaxSignificand, e \in InputExponents }

(***************************************************************************)
(* Strings: sequences of one-character strings, compared as JavaScript     *)
(* compares them, code unit by code unit                                   *)
(***************************************************************************)
DigitChars == <<"0", "1", "2", "3", "4", "5", "6", "7", "8", "9">>

\* The UTF-16 code unit of a character of a key: "." is 46, "0".."9" are 48..57.
CharCode(c) ==
  IF c = "." THEN 46 ELSE 47 + (CHOOSE k \in 1 .. 10 : DigitChars[k] = c)

\* Number.prototype.toString of a whole number n >= 0.
RECURSIVE IntToString(_)
IntToString(n) ==
  IF n < 10 THEN <<DigitChars[n + 1]>>
  ELSE IntToString(n \div 10) \o <<DigitChars[(n % 10) + 1]>>

\* Number.prototype.toString of the number quarters / 4 (>= 0): "2019.25",
\* "2019.5", "2019.75", and "2020" for a whole number.
NumberToString(quarters) ==
  LET whole == IntToString(quarters \div 4)
  IN CASE quarters % 4 = 0 -> whole
       [] quarters % 4 = 1 -> whole \o <<".", "2", "5">>
       [] quarters % 4 = 2 -> whole \o <<".", "5">>
       [] quarters % 4 = 3 -> whole \o <<".", "7", "5">>

\* String.prototype.padEnd(len, fill) with a one-character fill.
RECURSIVE padEnd(_, _, _)
padEnd(s, len, fill) == IF Len(s) >= len THEN s ELSE padEnd(s \o <<fill>>, len, fill)

\* a < b on strings: the first differing code unit decides, a proper prefix is less.
RECURSIVE StringLess(_, _)
StringLess(a, b) ==
  IF b = <<>> THEN FALSE
  ELSE IF a = <<>> THEN TRUE
  ELSE IF CharCode(Head(a)) # CharCode(Head(b)) THEN CharCode(Head(a)) < CharCode(Head(b))
  ELSE StringLess(Tail(a), Tail(b))

(***************************************************************************)
(* luxon DateTime: an immutable value [year, month, day, second, offset],  *)
(* the wall clock fields in a zone of fixed offset (minutes east of UTC)   *)
(***************************************************************************)
\* Days from 1970-01-01 to the proleptic Gregorian date y-m-d.
DaysFromCivil(y, m, d) ==
  LET yy == IF m <= 2 THEN y - 1 ELSE y
      era == yy \div 400
      yoe == yy - era * 400
      mp == (m + 9) % 12
      doy == (153 * mp + 2) \div 5 + d - 1
      doe == yoe * 365 + yoe \div 4 - yoe \div 100 + doy
  IN era * 146097 + doe - 719468

\* The proleptic Gregorian date of day z (days from 1970-01-01).
CivilFromDays(z) ==
  Only({ Only({ Only({ Only({
    [year |-> yoe + era * 400 + (IF mp < 10 THEN 0 ELSE 1),
     month |-> IF mp < 10 THEN mp + 3 ELSE mp - 9,
     day |-> doy - (153 * mp + 2) \div 5 + 1]
    : mp \in {(5 * doy + 2) \div 153} })
    : doy \in {doe - (365 * yoe + yoe \div 4 - yoe \div 100)} })
    : yoe \in {(doe - doe \div 1460 + doe \div 36524 - doe \div 146096) \div 365} })
    : era \in {(z + 719468) \div 146097}, doe \in {(z + 719468) % 146097} })

\* DateTime.utc(year, month, day, 0, 0, 0).
utc(y, m, d) == [year |-> y, month |-> m, day |-> d, second |-> 0, offset |-> 0]

\* The same instant with its fields moved by `seconds` (the zone kept).
plusSeconds(date, seconds) ==
  Only({ [year |-> c.year, month |-> c.month, day |-> c.day,
          second |-> (date.second + seconds) % 86400, offset |-> date.offset]
    : c \in {CivilFromDays(DaysFromCivil(date.year, date.month, date.day)
                             + (date.second + seconds) \div 86400)} })

\* date.toUTC(): the same instant in the zone of offset 0.
toUTC(date) == [plusSeconds(date, -60 * date.offset) EXCEPT !.offset = 0]

\* date.plus({ days: n }): the same wall clock time n calendar days later.
plusDays(date, n) == plusSeconds(date, 86400 * n)

\* date.ordinal: the day of the year, 1 .. 366.
ordinal(date) ==
  DaysFromCivil(date.year, date.month, date.day) - DaysFromCivil(date.year, 1, 1) + 1

(***************************************************************************)
(* Delta-T                                                                 *)
(***************************************************************************)
\* The quarter-year table: <<year, hundredths of the year, Delta-T in 1e-4 s>>
\* for the key "year.hundredths", first to last.
deltaTRows ==
  <<
     <<1973, 25, 436737>>, <<1973, 50, 439562>>, <<1973, 75, 441982>>, <<1974, 0, 444841>>,
     <<1974, 25, 447386>>, <<1974, 50, 449986>>, <<1974, 75, 452064>>, <<1975, 0, 454761>>,
     <<1975, 25, 457375>>, <<1975, 50, 459820>>, <<1975, 75, 461825>>, <<1976, 0, 464567>>,
     <<1976, 25, 467302>>, <<1976, 50, 469970>>, <<1976, 75, 472362>>, <<1977, 0, 475214>>,
     <<1977, 25, 477781>>, <<1977, 50, 480348>>, <<1977, 75, 482460>>, <<1978, 0, 485344>>,
     <<1978, 25, 488365>>, <<1978, 50, 491013>>, <<1978, 75, 493070>>, <<1979, 0, 495861>>,
     <<1979, 25, 498556>>, <<1979, 50, 501019>>, <<1979, 75, 502968>>, <<1980, 0, 505387>>,
     <<1980, 25, 507658>>, <<1980, 50, 509761>>, <<1980, 75, 511538>>, <<1981, 0, 513808>>,
     <<1981, 25, 515985>>, <<1981, 50, 518133>>, <<1981, 75, 519603>>, <<1982, 0, 521668>>,
     <<1982, 25, 523680>>, <<1982, 50, 525751>>, <<1982, 75, 527340>>, <<1983, 0, 529565>>,
     <<1983, 25, 532197>>, <<1983, 50, 534335>>, <<1983, 75, 535845>>, <<1984, 0, 537882>>,
     <<1984, 25, 539443>>, <<1984, 50, 540856>>, <<1984, 75, 541914>>, <<1985, 0, 543427>>,
     <<1985, 25, 544898>>, <<1985, 50, 546355>>, <<1985, 75, 547174>>, <<1986, 0, 548712>>,
     <<1986, 25, 549997>>, <<1986, 50, 551132>>, <<1986, 75, 551898>>, <<1987, 0, 553222>>,
     <<1987, 25, 554629>>, <<1987, 50, 555812>>, <<1987, 75, 556656>>, <<1988, 0, 558197>>,
     <<1988, 25, 559663>>, <<1988, 50, 560939>>, <<1988, 75, 561611>>, <<1989, 0, 563000>>,
     <<1989, 25, 564283>>, <<1989, 50, 565697>>, <<1989, 75, 566739>>, <<1990, 0, 568553>>,
     <<1990, 25, 570471>>, <<1990, 50, 572226>>, <<1990, 75, 573643>>, <<1991, 0, 575653>>,
     <<1991, 25, 577711>>, <<1991, 50, 579576>>, <<1991, 75, 581043>>, <<1992, 0, 583092>>,
     <<1992, 25, 585401>>, <<1992, 50, 587410>>, <<1992, 75, 588986>>, <<1993, 0, 591218>>,
     <<1993, 25, 593574>>, <<1993, 50, 595850>>, <<1993, 75, 597588>>, <<1994, 0, 599845>>,
     <<1994, 25, 602042>>, <<1994, 50, 604012>>, <<1994, 75, 605578>>, <<1995, 0, 607853>>,
     <<1995, 25, 610277>>, <<1995, 50, 612454>>, <<1995, 75, 614036>>, <<1996, 0, 616287>>,
     <<1996, 25, 618132>>, <<1996, 50, 619969>>, <<1996, 75, 621202>>, <<1997, 0, 622950>>,
     <<1997, 25, 624754>>, <<1997, 50, 626571>>, <<1997, 75, 627926>>, <<1998, 0, 629659>>,
     <<1998, 25, 631462>>, <<1998, 50, 632844>>, <<1998, 75, 633422>>, <<1999, 0, 634673>>,
     <<1999, 25, 635679>>, <<1999, 50, 636642>>, <<1999, 75, 637147>>, <<2000, 0, 638285>>,
     <<2000, 25, 639075>>, <<2000, 50, 639799>>, <<2000, 75, 640093>>, <<2001, 0, 640908>>,
     <<2001, 25, 641584>>, <<2001, 50, 642117>>, <<2001, 75, 642223>>, <<2002, 0, 642998>>,
     <<2002, 25, 643735>>, <<2002, 50, 644132>>, <<2002, 75, 644168>>, <<2003, 0, 644734>>,
     <<2003, 25, 645269>>, <<2003, 50, 645512>>, <<2003, 75, 645415>>, <<2004, 0, 645736>>,
     <<2004, 25, 646176>>, <<2004, 50, 646530>>, <<2004, 75, 646400>>, <<2005, 0, 646876>>,
     <<2005, 25, 647575>>, <<2005, 50, 647995>>, <<2005, 75, 647921>>, <<2006, 0, 648452>>,
     <<2006, 25, 649175>>, <<2006, 50, 649895>>, <<2006, 75, 650371>>, <<2007, 0, 651464>>,
     <<2007, 25, 652494>>, <<2007, 50, 653413>>, <<2007, 75, 653711>>, <<2008, 0, 654573>>,
     <<2008, 25, 655450>>, <<2008, 50, 656287>>, <<2008, 75, 656760>>, <<2009, 0, 657768>>,
     <<2009, 25, 658595>>, <<2009, 50, 659509>>, <<2009, 75, 659839>>, <<2010, 0, 660699>>,
     <<2010, 25, 661683>>, <<2010, 50, 662409>>, <<2010, 75, 662441>>, <<2011, 0, 663246>>,
     <<2011, 25, 663957>>, <<2011, 50, 664749>>, <<2011, 75, 665056>>, <<2012, 0, 666030>>,
     <<2012, 25, 666925>>, <<2012, 50, 667708>>, <<2012, 75, 668103>>, <<2013, 0, 669069>>,
     <<2013, 25, 670258>>, <<2013, 50, 671266>>, <<2013, 75, 671717>>, <<2014, 0, 672810>>,
     <<2014, 25, 673890>>, <<2014, 50, 674858>>, <<2014, 75, 675353>>, <<2015, 0, 676439>>,
     <<2015, 25, 677591>>, <<2015, 50, 678606>>, <<2015, 75, 679546>>, <<2016, 0, 681024>>,
     <<2016, 25, 682664>>, <<2016, 50, 683964>>, <<2016, 75, 684630>>, <<2017, 0, 685927>>,
     <<2017, 25, 687135>>, <<2017, 50, 688245>>, <<2017, 75, 688689>>, <<2018, 0, 689676>>,
     <<2018, 25, 690499>>, <<2018, 50, 691134>>, <<2018, 75, 691356>>, <<2019, 0, 692202>>,
     <<2019, 25, 693032>>, <<2019, 50, 696200>>, <<2019, 75, 697100>>, <<2020, 0, 698700>>,
     <<2020, 25, 700300>>, <<2020, 50, 701600>>, <<2020, 75, 702400>>, <<2021, 0, 703900>>,
     <<2021, 25, 705500>>, <<2021, 50, 706800>>, <<2021, 75, 707600>>, <<2022, 0, 709100>>,
     <<2022, 25, 710600>>, <<2022, 50, 711800>>, <<2022, 75, 712500>>, <<2023, 0, 714000>>,
     <<2023, 25, 715400>>, <<2023, 50, 716700>>, <<2023, 75, 717400>>, <<2024, 0, 718800>>,
     <<2024, 25, 720300>>, <<2024, 50, 721500>>, <<2024, 75, 722200>>, <<2025, 0, 723600>>,
     <<2025, 25, 725000>>, <<2025, 50, 726200>>, <<2025, 75, 726900>>, <<2026, 0, 728300>>,
     <<2026, 25, 729800>>, <<2026, 50, 731000>>, <<2026, 75, 731700>>, <<2027, 0, 733200>>,
     <<2027, 25, 734600>>, <<2027, 50, 735800>>, <<2027, 75, 736600>>
  >>

\* The key of a row: "1973.25".
RowKey(row) ==
  IntToString(row[1]) \o <<".">> \o
  (IF row[2] < 10 THEN <<"0">> ELSE <<>>) \o IntToString(row[2])

\* const results = data.deltaT: the object's `first` and `last` entries and
\* its quarter-year entries, as the set of <<key, value>>.
results ==
  Only({ [first |-> [year |-> RowKey(rows[1]), data |-> Num(rows[1][3])],
          last |-> [year |-> RowKey(rows[Len(rows)]), data |-> Num(rows[Len(rows)][3])],
          entries |-> { <<RowKey(rows[i]), Num(rows[i][3])>> : i \in 1 .. Len(rows) }]
    : rows \in {deltaTRows} })

\* object[key]: the entry, or undefined when the object has no such key.
resultsAt(object, key) ==
  Only({ IF found = {} THEN Undefined ELSE Only(found)
    : found \in {{ e[2] : e \in { x \in object.entries : x[1] = key } }} })

\* deltaT(date), src/src/spa.js.  Math.floor((ord / daysInYear) / 0.25) is
\* floor(4 * ord / daysInYear); year + quarterFrac is held in quarters.
deltaT(date) ==
  LET year == date.year
      ord == ordinal(date)
      daysInYear == ordinal(utc(date.year, 12, 31))
      quarter == (4 * ord) \div daysInYear
  IN Only({ IF StringLess(yearLookup, res.first.year) THEN res.first.data
            ELSE IF StringLess(res.last.year, yearLookup) THEN res.last.data
            ELSE resultsAt(res, yearLookup)
       : yearLookup \in {IF quarter > 0
                          THEN padEnd(NumberToString(4 * year + quarter), 7, "0")
                          ELSE IntToString(year) \o <<".", "0", "0">>},
         res \in {results} })

(***************************************************************************)
(* Julian day, centuries                                                   *)
(***************************************************************************)
\* Ticks (1e-4 s) in a day, in a second.
TicksPerSecond == 10 * 1000

TicksPerDay == 86400 * TicksPerSecond

\* The Julian day `day + ticks / TicksPerDay`, its tick brought into the day.
JD(day, ticks) ==
  [day |-> day + ticks \div TicksPerDay, tick |-> ticks % TicksPerDay]

\* Math.trunc of the quotient a / b (b > 0).
Trunc(a, b) == IF a >= 0 THEN a \div b ELSE -((-a) \div b)

\* A number is truthy unless it is 0 or NaN; undefined and null are not.
Truthy(x) == x.t = "num" /\ x.v # 0

\* dayFraction with the time of day cut to whole minutes.
dayFraction_minutes(date) ==
  Only({ ((d.second - utc(d.year, d.month, d.day).second) \div 60) * 60 * TicksPerSecond
    : d \in {toUTC(date)} })

\* dayFraction(date), src/src/spa.js: the part of the UTC day that has passed,
\* in ticks of the day (date.diff(dayStart).milliseconds over msecInDay).
dayFraction(date) ==
  Only({ (d.second - utc(d.year, d.month, d.day).second) * TicksPerSecond
    : d \in {toUTC(date)} })

\* julianDay(date, delta_ut1 = 0), src/src/spa.js.  `date.seconds += delta_ut1`
\* assigns a property no DateTime accessor reads (the accessor is `second`):
\* the object gains an own `seconds` holding undefined + delta_ut1, NaN, and
\* year, month, day and the time of day stay as they were.
\* 365.25 * y is 1461 * y / 4 and 30.6001 * m is 306001 * m / 10000.
julianDay(date, delta_ut1) ==
  Only({ Only({ Only({ [jd EXCEPT !.day = @ + (IF jd.day < 2299160 THEN 0
                                               ELSE 2 - A + Trunc(A, 4))]
    : A \in {Trunc(date2.year, 100)},
      \* yearPart + monthPart + dayPart - 1524.5 - tzOffsetFraction
      jd \in {LET shift == date2.month <= 2
                  month == IF shift THEN date2.month + 12 ELSE date2.month
                  year == IF shift THEN date2.year - 1 ELSE date2.year
                  yearPart == Trunc(1461 * (year + 4716), 4)
                  monthPart == Trunc(306001 * (month + 1), 10000)
              IN JD(yearPart + monthPart + date2.day - 1525,
                    dayFraction(date2) + TicksPerDay \div 2
                      - date2.offset * 60 * TicksPerSecond)} })
    : date2 \in {IF Truthy(IF delta_ut1 = Undefined THEN Num(0) ELSE delta_ut1)
                 THEN ("seconds" :> NaN) @@ date1 ELSE date1} })
    : date1 \in {toUTC(date)} })

\* julianEphemerisDay(jd, delta_t): jd + delta_t / 86400, delta_t in ticks.
\* undefined / 86400 is NaN.
julianEphemerisDay(jd, delta_t) ==
  IF jd = NaN \/ delta_t.t \notin {"num", "null"} THEN NaN
  ELSE IF delta_t.t = "null" THEN jd
  ELSE JD(jd.day, jd.tick + delta_t.v)

\* The quotient (x - 2451545) / den of a Julian day x, kept as the exact
\* fraction num / den: num a span of days [day, tick].
SinceJ2000(x, den) ==
  IF x = NaN THEN NaN
  ELSE [num |-> [day |-> x.day - 2451545, tick |-> x.tick], den |-> den]

\* julianCentury(jd), src/src/spa.js.
julianCentury(jd) == SinceJ2000(jd, 35625)

\* julianEphemerisCentury(jde), src/src/spa.js.
julianEphemerisCentury(jde) == SinceJ2000(jde, 36525)

\* julianEphemerisMillennium(jce): jce / 10.
julianEphemerisMillennium(jce) ==
  IF jce = NaN THEN NaN ELSE [jce EXCEPT !.den = @ * 10]

\* The span of days `span` times the whole number k, digit by digit in the
\* mixed radix days : 24 h : 3600 s : 10000 ticks.
SpanTimes(span, k) ==
  LET f == (span.tick % TicksPerSecond) * k
      s == ((span.tick \div TicksPerSecond) % 3600) * k + f \div TicksPerSecond
      h == (span.tick \div (3600 * TicksPerSecond)) * k + s \div 3600
  IN <<span.day * k + h \div 24, h % 24, s % 3600, f % TicksPerSecond>>

\* Equality of two quotients as real numbers: a.num * b.den = b.num * a.den.
QuotientEq(a, b) == SpanTimes(a.num, b.den) = SpanTimes(b.num, a.den)

(***************************************************************************)
(* The sun's position.  The periodic-term sums are not evaluated in the     *)
(* model: a value computed from finite operands is Fin, one computed from   *)
(* NaN or undefined is NaN.  The geocentric declination alone is kept, in   *)
(* 1e-7 degree, because sunHourAngleAtRiseSet branches on it: it is a       *)
(* function of the Julian ephemeris day, tabulated from the source's        *)
(* formulas at the ephemeris days the snapshots below reach.                *)
(***************************************************************************)
\* Units of 1e-7 degree in a degree.
DegreeUnits == 10 * 1000 * 1000

\* The value returned where the sun never rises or sets.
SENTINEL == -99999

\* Sun radius and atmospheric refraction at sunset, 1e-7 degree.
SUN_RADIUS == 2666700

REFRACTION_AT_SUNSET == 5667000

TypeError == [t |-> "TypeError"]

Finite(x) == x \notin {NaN, Undefined, TypeError}

\* Any arithmetic of the source over these operands.
Astro(operands) ==
  IF \A i \in 1 .. Len(operands) : Finite(operands[i]) THEN Fin ELSE NaN

\* <<day, tick of the Julian ephemeris day, geocentric declination>>
declinationRows ==
  {
     <<2452926, 432645415, -79061465>>,
     <<2452927, 432000000, -82779575>>,
     <<2452927, 432645415, -82782347>>,
     <<2452927, 432670000, -82782453>>,
     <<2452928, 270300000, -85790128>>,
     <<2452928, 270945415, -85792889>>,
     <<2452928, 270970000, -85792994>>,
     <<2452928, 432000000, -86481451>>,
     <<2452928, 432645415, -86484209>>,
     <<2452928, 432670000, -86484314>>,
     <<2452928, 444835415, -86536297>>,
     <<2452928, 486805415, -86715604>>,
     <<2452928, 666945415, -87484671>>,
     <<2452928, 693725415, -87598927>>,
     <<2452929, 71665415, -88630265>>,
     <<2452929, 158985415, -89002095>>,
     <<2452929, 162195415, -89015760>>,
     <<2452929, 209895415, -89218784>>,
     <<2452929, 270300000, -89475792>>,
     <<2452929, 270945415, -89478537>>,
     <<2452929, 270970000, -89478642>>,
     <<2452929, 432000000, -90163285>>,
     <<2452929, 432645415, -90166028>>,
     <<2452929, 432670000, -90166132>>,
     <<2452929, 444835415, -90217825>>,
     <<2452929, 486805415, -90396132>>,
     <<2452929, 486945415, -90396727>>,
     <<2452929, 522945415, -90549630>>,
     <<2452929, 666945415, -91160875>>,
     <<2452929, 693725415, -91274484>>,
     <<2452930, 71665415, -92299935>>,
     <<2452930, 158985415, -92669620>>,
     <<2452930, 162195415, -92683206>>,
     <<2452930, 209895415, -92885054>>,
     <<2452930, 270300000, -93140567>>,
     <<2452930, 270945415, -93143297>>,
     <<2452930, 270970000, -93143401>>,
     <<2452930, 432000000, -93824035>>,
     <<2452930, 432645415, -93826761>>,
     <<2452930, 432670000, -93826865>>,
     <<2452930, 444835415, -93878254>>,
     <<2452930, 486805415, -94055508>>,
     <<2452930, 486945415, -94056099>>,
     <<2452930, 522945415, -94208099>>,
     <<2452930, 666945415, -94815708>>,
     <<2452930, 693725415, -94928638>>,
     <<2452931, 71665415, -95947905>>,
     <<2452931, 158985415, -96315337>>,
     <<2452931, 162195415, -96328840>>,
     <<2452931, 209895415, -96529453>>,
     <<2452931, 270300000, -96783397>>,
     <<2452931, 270945415, -96786110>>,
     <<2452931, 270970000, -96786213>>,
     <<2452931, 432000000, -97462638>>,
     <<2452931, 432645415, -97465347>>,
     <<2452931, 432670000, -97465450>>,
     <<2452931, 486945415, -97693258>>,
     <<2452931, 522945415, -97844308>>,
     <<2452932, 270300000, -100403201>>,
     <<2452932, 270945415, -100405896>>,
     <<2452932, 270970000, -100405999>>,
     <<2452958, 432000000, -183177113>>,
     <<2452958, 432645415, -183179045>>,
     <<2452958, 432670000, -183179119>>,
     <<2452959, 270300000, -185261612>>,
     <<2452959, 270945415, -185263512>>,
     <<2452959, 270970000, -185263584>>,
     <<2452959, 432000000, -185736508>>,
     <<2452959, 432645415, -185738400>>,
     <<2452959, 432670000, -185738472>>,
     <<2452960, 270300000, -187776906>>,
     <<2452960, 270945415, -187778764>>,
     <<2452960, 270970000, -187778835>>,
     <<2452960, 432000000, -188241546>>,
     <<2452960, 432645415, -188243396>>,
     <<2452960, 432670000, -188243467>>,
     <<2452961, 270300000, -190236955>>,
     <<2452961, 270945415, -190238772>>,
     <<2452961, 270970000, -190238841>>,
     <<2458632, 432693032, 215361240>>,
     <<2458633, 432000000, 216907884>>,
     <<2458633, 432670000, 216909060>>,
     <<2458633, 432693032, 216909101>>,
     <<2458634, 0, 217658379>>,
     <<2458634, 670000, 217659531>>,
     <<2458634, 693032, 217659570>>,
     <<2458634, 216693032, 218028910>>,
     <<2458634, 432000000, 218393142>>,
     <<2458634, 432670000, 218394269>>,
     <<2458634, 432693032, 218394308>>,
     <<2458634, 517853032, 218537285>>,
     <<2458634, 555213032, 218599815>>,
     <<2458634, 623073032, 218713091>>,
     <<2458634, 648693032, 218755756>>,
     <<2458635, 0, 219112106>>,
     <<2458635, 670000, 219113209>>,
     <<2458635, 693032, 219113247>>,
     <<2458635, 36693032, 219172443>>,
     <<2458635, 216693032, 219466770>>,
     <<2458635, 217553032, 219468170>>,
     <<2458635, 252693032, 219525305>>,
     <<2458635, 383183032, 219736550>>,
     <<2458635, 432000000, 219815204>>,
     <<2458635, 432670000, 219816283>>,
     <<2458635, 432693032, 219816320>>,
     <<2458635, 517853032, 219953039>>,
     <<2458635, 555213032, 220012822>>,
     <<2458635, 623073032, 220121107>>,
     <<2458635, 648693032, 220161886>>,
     <<2458636, 0, 220502373>>,
     <<2458636, 670000, 220503426>>,
     <<2458636, 693032, 220503463>>,
     <<2458636, 36693032, 220560004>>,
     <<2458636, 216693032, 220841041>>,
     <<2458636, 217553032, 220842377>>,
     <<2458636, 252693032, 220896914>>,
     <<2458636, 383183032, 221098508>>,
     <<2458636, 432000000, 221173548>>,
     <<2458636, 432670000, 221174577>>,
     <<2458636, 432693032, 221174612>>,
     <<2458636, 517853032, 221305023>>,
     <<2458636, 555213032, 221362038>>,
     <<2458636, 623073032, 221465291>>,
     <<2458636, 648693032, 221504170>>,
     <<2458637, 0, 221828668>>,
     <<2458637, 670000, 221829672>>,
     <<2458637, 693032, 221829706>>,
     <<2458637, 36693032, 221883571>>,
     <<2458637, 216693032, 222151214>>,
     <<2458637, 217553032, 222152486>>,
     <<2458637, 252693032, 222204406>>,
     <<2458637, 383183032, 222396273>>,
     <<2458637, 432000000, 222467672>>,
     <<2458637, 432670000, 222468650>>,
     <<2458637, 432693032, 222468684>>,
     <<2458638, 0, 223090499>>,
     <<2458638, 670000, 223091453>>,
     <<2458638, 693032, 223091486>>,
     <<2458652, 432693032, 233895897>>,
     <<2458653, 432000000, 234113128>>,
     <<2458653, 432670000, 234113270>>,
     <<2458653, 432693032, 234113274>>,
     <<2458654, 0, 234196055>>,
     <<2458654, 670000, 234196170>>,
     <<2458654, 693032, 234196174>>,
     <<2458654, 432000000, 234261783>>,
     <<2458654, 432670000, 234261872>>,
     <<2458654, 432693032, 234261875>>,
     <<2458654, 523863032, 234273542>>,
     <<2458654, 560923032, 234278066>>,
     <<2458654, 621143032, 234285147>>,
     <<2458655, 0, 234310310>>,
     <<2458655, 670000, 234310371>>,
     <<2458655, 693032, 234310374>>,
     <<2458655, 216693032, 234328172>>,
     <<2458655, 219943032, 234328407>>,
     <<2458655, 252693032, 234330720>>,
     <<2458655, 432000000, 234341632>>,
     <<2458655, 432670000, 234341667>>,
     <<2458655, 432693032, 234341669>>,
     <<2458655, 523863032, 234346075>>,
     <<2458655, 523993032, 234346080>>,
     <<2458655, 560923032, 234347647>>,
     <<2458655, 561053032, 234347652>>,
     <<2458655, 621143032, 234349931>>,
     <<2458655, 621273032, 234349936>>,
     <<2458656, 0, 234355751>>,
     <<2458656, 670000, 234355759>>,
     <<2458656, 693032, 234355760>>,
     <<2458656, 216693032, 234356354>>,
     <<2458656, 219943032, 234356330>>,
     <<2458656, 220073032, 234356329>>,
     <<2458656, 252693032, 234356035>>,
     <<2458656, 432000000, 234352666>>,
     <<2458656, 432670000, 234352648>>,
     <<2458656, 432693032, 234352648>>,
     <<2458656, 523863032, 234349793>>,
     <<2458656, 523993032, 234349788>>,
     <<2458656, 560923032, 234348413>>,
     <<2458656, 561053032, 234348408>>,
     <<2458656, 621143032, 234345902>>,
     <<2458656, 621273032, 234345896>>,
     <<2458657, 0, 234332381>>,
     <<2458657, 670000, 234332336>>,
     <<2458657, 693032, 234332335>>,
     <<2458657, 216693032, 234315729>>,
     <<2458657, 219943032, 234315447>>,
     <<2458657, 220073032, 234315435>>,
     <<2458657, 252693032, 234312544>>,
     <<2458657, 432000000, 234294899>>,
     <<2458657, 432670000, 234294828>>,
     <<2458657, 432693032, 234294825>>,
     <<2458657, 523993032, 234284697>>,
     <<2458657, 561053032, 234280367>>,
     <<2458657, 621273032, 234273061>>,
     <<2458658, 0, 234240226>>,
     <<2458658, 670000, 234240128>>,
     <<2458658, 693032, 234240124>>,
     <<2458658, 216693032, 234206329>>,
     <<2458658, 220073032, 234205766>>,
     <<2458658, 252693032, 234200279>>,
     <<2458658, 432000000, 234168368>>,
     <<2458658, 432670000, 234168243>>,
     <<2458658, 432693032, 234168239>>,
     <<2458659, 0, 234079334>>,
     <<2458659, 670000, 234079183>>,
     <<2458659, 693032, 234079178>>,
     <<2458664, 432000000, 231970504>>,
     <<2458664, 432670000, 231970061>>,
     <<2458664, 432693032, 231970046>>,
     <<2458665, 0, 231676659>>,
     <<2458665, 670000, 231676190>>,
     <<2458665, 693032, 231676174>>,
     <<2458665, 432000000, 231365912>>,
     <<2458665, 432670000, 231365417>>,
     <<2458665, 432693032, 231365400>>,
     <<2458666, 0, 231038299>>,
     <<2458666, 670000, 231037778>>,
     <<2458666, 693032, 231037760>>,
     <<2458666, 432000000, 230693857>>,
     <<2458666, 432670000, 230693310>>,
     <<2458666, 432693032, 230693291>>,
     <<2458666, 432696200, 230693289>>,
     <<2458667, 0, 230332624>>,
     <<2458667, 670000, 230332051>>,
     <<2458667, 693032, 230332031>>,
     <<2458667, 696200, 230332028>>,
     <<2458684, 432000000, 207503394>>,
     <<2458684, 432670000, 207501964>>,
     <<2458684, 432693032, 207501915>>,
     <<2458684, 432696200, 207501908>>,
     <<2458685, 0, 206574328>>,
     <<2458685, 670000, 206572876>>,
     <<2458685, 693032, 206572826>>,
     <<2458685, 696200, 206572819>>,
     <<2458685, 432000000, 205630794>>,
     <<2458685, 432670000, 205629319>>,
     <<2458685, 432693032, 205629268>>,
     <<2458685, 432696200, 205629261>>,
     <<2458686, 0, 204672871>>,
     <<2458686, 670000, 204671374>>,
     <<2458686, 693032, 204671322>>,
     <<2458686, 696200, 204671315>>,
     <<2458686, 432000000, 203700641>>,
     <<2458686, 432670000, 203699122>>,
     <<2458686, 432693032, 203699070>>,
     <<2458686, 432696200, 203699062>>,
     <<2458687, 0, 202714185>>,
     <<2458687, 670000, 202712645>>,
     <<2458687, 693032, 202712592>>,
     <<2458687, 696200, 202712584>>,
     <<2458687, 432000000, 201713588>>,
     <<2458687, 432670000, 201712025>>,
     <<2458687, 432693032, 201711972>>,
     <<2458687, 432696200, 201711964>>,
     <<2458688, 0, 200698932>>,
     <<2458688, 670000, 200697347>>,
     <<2458688, 693032, 200697293>>,
     <<2458688, 696200, 200697285>>,
     <<2458751, 432696200, -6516442>>,
     <<2458752, 432000000, -10408242>>,
     <<2458752, 432670000, -10411263>>,
     <<2458752, 432696200, -10411381>>,
     <<2458753, 432000000, -14303023>>,
     <<2458753, 432670000, -14306043>>,
     <<2458753, 432696200, -14306161>>,
     <<2458753, 462586200, -14440885>>,
     <<2458753, 472200000, -14484218>>,
     <<2458753, 472870000, -14487237>>,
     <<2458753, 472896200, -14487355>>,
     <<2458753, 503556200, -14625549>>,
     <<2458753, 652896200, -15298642>>,
     <<2458753, 679546200, -15418752>>,
     <<2458754, 193926200, -17123930>>,
     <<2458754, 204246200, -17170432>>,
     <<2458754, 204726200, -17172595>>,
     <<2458754, 213076200, -17210221>>,
     <<2458754, 220896200, -17245458>>,
     <<2458754, 432000000, -18196633>>,
     <<2458754, 432670000, -18199652>>,
     <<2458754, 432696200, -18199770>>,
     <<2458754, 436896200, -18218692>>,
     <<2458754, 462586200, -18334435>>,
     <<2458754, 472200000, -18377749>>,
     <<2458754, 472870000, -18380767>>,
     <<2458754, 472896200, -18380885>>,
     <<2458754, 503556200, -18519016>>,
     <<2458754, 652896200, -19191790>>,
     <<2458754, 679546200, -19311840>>,
     <<2458755, 193926200, -21016060>>,
     <<2458755, 204246200, -21062534>>,
     <<2458755, 204726200, -21064696>>,
     <<2458755, 213076200, -21102298>>,
     <<2458755, 220896200, -21137513>>,
     <<2458755, 432000000, -22088062>>,
     <<2458755, 432670000, -22091078>>,
     <<2458755, 432696200, -22091196>>,
     <<2458755, 436896200, -22110106>>,
     <<2458755, 462586200, -22225768>>,
     <<2458755, 472200000, -22269051>>,
     <<2458755, 472870000, -22272068>>,
     <<2458755, 472896200, -22272186>>,
     <<2458755, 503556200, -22410219>>,
     <<2458755, 652896200, -23082499>>,
     <<2458755, 679546200, -23202458>>,
     <<2458756, 193926200, -24905276>>,
     <<2458756, 204246200, -24951709>>,
     <<2458756, 204726200, -24953868>>,
     <<2458756, 213076200, -24991437>>,
     <<2458756, 220896200, -25026621>>,
     <<2458756, 432000000, -25976295>>,
     <<2458756, 432670000, -25979309>>,
     <<2458756, 432696200, -25979427>>,
     <<2458756, 436896200, -25998318>>,
     <<2458756, 472200000, -26157111>>,
     <<2458756, 472870000, -26160125>>,
     <<2458756, 472896200, -26160243>>,
     <<2458757, 472200000, -30040906>>,
     <<2458757, 472870000, -30043916>>,
     <<2458757, 472896200, -30044034>>,
     <<2458783, 432000000, -126013610>>,
     <<2458783, 432670000, -126016246>>,
     <<2458783, 432696200, -126016349>>,
     <<2458783, 432697100, -126016353>>,
     <<2458784, 432000000, -129397039>>,
     <<2458784, 432670000, -129399650>>,
     <<2458784, 432696200, -129399752>>,
     <<2458784, 432697100, -129399756>>,
     <<2458784, 472200000, -129553656>>,
     <<2458784, 472870000, -129556266>>,
     <<2458784, 472896200, -129556368>>,
     <<2458784, 472897100, -129556371>>,
     <<2458785, 432000000, -132746982>>,
     <<2458785, 432670000, -132749566>>,
     <<2458785, 432696200, -132749667>>,
     <<2458785, 432697100, -132749671>>,
     <<2458785, 472200000, -132902013>>,
     <<2458785, 472870000, -132904596>>,
     <<2458785, 472896200, -132904697>>,
     <<2458785, 472897100, -132904700>>,
     <<2458786, 472200000, -136215658>>,
     <<2458786, 472870000, -136218214>>,
     <<2458786, 472896200, -136218313>>,
     <<2458786, 472897100, -136218317>>,
     <<2458835, 432697100, -233675415>>,
     <<2458836, 432000000, -233963406>>,
     <<2458836, 432670000, -233963599>>,
     <<2458836, 432697100, -233963607>>,
     <<2458837, 0, -234078252>>,
     <<2458837, 670000, -234078415>>,
     <<2458837, 697100, -234078422>>,
     <<2458837, 180697100, -234120492>>,
     <<2458837, 396697100, -234166494>>,
     <<2458837, 432000000, -234173548>>,
     <<2458837, 432670000, -234173680>>,
     <<2458837, 432697100, -234173686>>,
     <<2458837, 464437100, -234179913>>,
     <<2458837, 648697100, -234213980>>,
     <<2458837, 740687100, -234229654>>,
     <<2458838, 0, -234249273>>,
     <<2458838, 670000, -234249375>>,
     <<2458838, 697100, -234249379>>,
     <<2458838, 23747100, -234252867>>,
     <<2458838, 36697100, -234254803>>,
     <<2458838, 53827100, -234257336>>,
     <<2458838, 72697100, -234260091>>,
     <<2458838, 180697100, -234275138>>,
     <<2458838, 217687100, -234280010>>,
     <<2458838, 252697100, -234284489>>,
     <<2458838, 288697100, -234288961>>,
     <<2458838, 396697100, -234301558>>,
     <<2458838, 420337100, -234304153>>,
     <<2458838, 432000000, -234305411>>,
     <<2458838, 432670000, -234305483>>,
     <<2458838, 432697100, -234305486>>,
     <<2458838, 464437100, -234308835>>,
     <<2458838, 648697100, -234326190>>,
     <<2458838, 740687100, -234333519>>,
     <<2458839, 0, -234341950>>,
     <<2458839, 670000, -234341992>>,
     <<2458839, 697100, -234341993>>,
     <<2458839, 23747100, -234343390>>,
     <<2458839, 36697100, -234344150>>,
     <<2458839, 53827100, -234345129>>,
     <<2458839, 72697100, -234346172>>,
     <<2458839, 180697100, -234351418>>,
     <<2458839, 217687100, -234352933>>,
     <<2458839, 252697100, -234354234>>,
     <<2458839, 288697100, -234355438>>,
     <<2458839, 396697100, -234358233>>,
     <<2458839, 420337100, -234358681>>,
     <<2458839, 432000000, -234358881>>,
     <<2458839, 432670000, -234358892>>,
     <<2458839, 432697100, -234358892>>,
     <<2458839, 464437100, -234359360>>,
     <<2458839, 648697100, -234359987>>,
     <<2458839, 740687100, -234358964>>,
     <<2458840, 0, -234356197>>,
     <<2458840, 670000, -234356177>>,
     <<2458840, 697100, -234356177>>,
     <<2458840, 23747100, -234355481>>,
     <<2458840, 36697100, -234355065>>,
     <<2458840, 53827100, -234354488>>,
     <<2458840, 72697100, -234353817>>,
     <<2458840, 217687100, -234347411>>,
     <<2458840, 252697100, -234345533>>,
     <<2458840, 288697100, -234343468>>,
     <<2458840, 420337100, -234334755>>,
     <<2458840, 432000000, -234333895>>,
     <<2458840, 432670000, -234333845>>,
     <<2458840, 432697100, -234333843>>,
     <<2458841, 0, -234291975>>,
     <<2458841, 670000, -234291895>>,
     <<2458841, 697100, -234291892>>,
     <<2458846, 432000000, -232538334>>,
     <<2458846, 432670000, -232537920>>,
     <<2458846, 432697100, -232537903>>,
     <<2458847, 0, -232261819>>,
     <<2458847, 670000, -232261375>>,
     <<2458847, 697100, -232261357>>,
     <<2458847, 432000000, -231965892>>,
     <<2458847, 432670000, -231965418>>,
     <<2458847, 432697100, -231965399>>,
     <<2458848, 0, -231650588>>,
     <<2458848, 670000, -231650084>>,
     <<2458848, 697100, -231650063>>,
     <<2458848, 432000000, -231315942>>,
     <<2458848, 432670000, -231315408>>,
     <<2458849, 0, -230961994>>,
     <<2458849, 670000, -230961430>>,
     <<2458849, 432000000, -230588786>>,
     <<2458849, 432670000, -230588192>>,
     <<2458849, 432698700, -230588167>>,
     <<2458850, 0, -230196363>>,
     <<2458850, 670000, -230195739>>,
     <<2458850, 698700, -230195713>>,
     <<2458850, 432000000, -229784773>>,
     <<2458850, 432670000, -229784119>>,
     <<2458850, 432698700, -229784091>>,
     <<2458851, 0, -229354066>>,
     <<2458851, 670000, -229353383>>,
     <<2458851, 698700, -229353354>>,
     <<2458867, 432000000, -204891339>>,
     <<2458867, 432670000, -204889747>>,
     <<2458867, 432697100, -204889682>>,
     <<2458867, 432698700, -204889678>>,
     <<2458868, 0, -203856826>>,
     <<2458868, 670000, -203855209>>,
     <<2458868, 697100, -203855144>>,
     <<2458868, 698700, -203855140>>,
     <<2458868, 432000000, -202806257>>,
     <<2458868, 432670000, -202804615>>,
     <<2458868, 432697100, -202804549>>,
     <<2458868, 432698700, -202804545>>,
     <<2458869, 0, -201739752>>,
     <<2458869, 670000, -201738086>>,
     <<2458869, 697100, -201738019>>,
     <<2458869, 698700, -201738015>>,
     <<2458869, 432000000, -200657436>>,
     <<2458869, 432670000, -200655745>>,
     <<2458869, 432697100, -200655676>>,
     <<2458869, 432698700, -200655672>>,
     <<2458870, 0, -199559431>>,
     <<2458870, 670000, -199557716>>,
     <<2458870, 697100, -199557646>>,
     <<2458870, 698700, -199557642>>,
     <<2458877, 432000000, -181294182>>,
     <<2458877, 432670000, -181292127>>,
     <<2458877, 432698700, -181292039>>,
     <<2458878, 0, -179962804>>,
     <<2458878, 670000, -179960729>>,
     <<2458878, 698700, -179960640>>,
     <<2458878, 432000000, -178617983>>,
     <<2458878, 432670000, -178615887>>,
     <<2458878, 432698700, -178615798>>,
     <<2458879, 0, -177259860>>,
     <<2458879, 670000, -177257744>>,
     <<2458879, 698700, -177257653>>,
     <<2458879, 432000000, -175888575>>,
     <<2458879, 432670000, -175886438>>,
     <<2458879, 432698700, -175886347>>,
     <<2458880, 0, -174504270>>,
     <<2458880, 670000, -174502113>>,
     <<2458880, 698700, -174502021>>
  }

\* geocentricDeclination over the chain jme -> l, b, r -> theta, beta,
\* del_psi, epsilon, del_tau -> lambda -> delta, as a function of jde.
geocentricDeclination(jde) ==
  IF ~Finite(jde) THEN NaN
  ELSE Only({ Num(row[3]) : row \in { r \in declinationRows :
                                          r[1] = jde.day /\ r[2] = jde.tick } })

\* Math.abs(argument) <= 1 fails, with argument =
\* (sin h0' - sin lat sin delta) / (cos lat cos delta): above 1 where
\* |lat - delta| > 90 - h0' (the sun stays below), below -1 where
\* |lat + delta| > 90 + h0' (the sun stays above).  NaN compares false.
SunNeverReaches(lat, delta_zero, h0_prime) ==
  \/ delta_zero = NaN
  \/ Abs(lat.v - delta_zero.v) > 90 * DegreeUnits - h0_prime
  \/ Abs(lat.v + delta_zero.v) > 90 * DegreeUnits + h0_prime

\* sunHourAngleAtRiseSet(lat, delta_zero, h0_prime): an angle in [0, 180),
\* or the sentinel.
sunHourAngleAtRiseSet(lat, delta_zero, h0_prime) ==
  IF SunNeverReaches(lat, delta_zero, h0_prime) THEN Num(SENTINEL) ELSE Fin

\* rad2deg(Math.acos(argument)) at the arguments whose arc cosine is a whole
\* number of degrees: <<argument, degrees>>.
acosRows ==
  { <<Rat(-1, 1), 180>>, <<Rat(-1, 2), 120>>, <<Rat(0, 1), 90>>, <<Rat(1, 2), 60>>,
    <<Rat(1, 1), 0>> }

\* The return of sunHourAngleAtRiseSet for a value of its constant `argument`:
\* Math.abs(argument) <= 1 ? limit_degrees(rad2deg(Math.acos(argument)), 180)
\* : -99999.
hourAngleOf(argument) ==
  IF RatLeq(RatAbs(argument), Rat(1, 1))
  THEN limit_degrees(Only({ Rat(row[2], 1) : row \in { r \in acosRows : r[1] = argument } }),
                     Deg180)
  ELSE Rat(SENTINEL, 1)

\* ad[1] + (n * (a + b + c * n)) / 2 with c = b - a: the return of
\* rts_alpha_delta_prime, `mid` standing for ad[1].
interpolate(mid, a, b, n) ==
  fadd(mid, fdiv(fmul(n, fadd(fadd(a, b), fmul(fsub(b, a), n))), Rat(2, 1)))

\* rts_alpha_delta_prime with the differences brought into [0, 360).
rts_alpha_delta_prime_circle(ad, n) ==
  Only({ interpolate(ad[2],
                     IF RatLeq(Rat(2, 1), RatAbs(a)) THEN limit_degrees(a, Deg360) ELSE a,
                     IF RatLeq(Rat(2, 1), RatAbs(b)) THEN limit_degrees(b, Deg360) ELSE b,
                     n)
    : a \in {fsub(ad[2], ad[1])}, b \in {fsub(ad[3], ad[2])} })

\* rts_alpha_delta_prime(ad, n); the array ad[0 .. 2] is the tuple ad[1 .. 3].
rts_alpha_delta_prime(ad, n) ==
  Only({ interpolate(ad[2],
                     IF RatLeq(Rat(2, 1), RatAbs(a)) THEN limit_degrees(a, Rat(1, 1)) ELSE a,
                     IF RatLeq(Rat(2, 1), RatAbs(b)) THEN limit_degrees(b, Rat(1, 1)) ELSE b,
                     n)
    : a \in {fsub(ad[2], ad[1])}, b \in {fsub(ad[3], ad[2])} })

\* startOfDay(date): DateTime.utc(date.year, date.month, date.day).
startOfDay(date) == utc(date.year, date.month, date.day)

\* date.setZone(zone): the same instant, its fields in the zone of `offset`.
setZone(date, offset) ==
  [plusSeconds(toUTC(date), 60 * offset) EXCEPT !.offset = offset]

\* dateFromDayFrac(dayfrac, date): DateTime.utc(date.year, date.month,
\* date.day).plus({ seconds: dayfrac * 86400 }).setZone(date.zone); the
\* newDate.setZone(date.zone) before it is a value nobody keeps.  For a
\* fraction known only to be a number or not, the model keeps which.
dateFromDayFrac_zoneMidnight(dayfrac, date) ==
  IF "t" \in DOMAIN dayfrac THEN [t |-> "date", dayfrac |-> dayfrac]
  ELSE plusSeconds([date EXCEPT !.second = 0], (86400 * dayfrac.n) \div dayfrac.d)

dateFromDayFrac(dayfrac, date) ==
  IF "t" \in DOMAIN dayfrac THEN [t |-> "date", dayfrac |-> dayfrac]
  ELSE setZone(plusSeconds(utc(date.year, date.month, date.day),
                           (86400 * dayfrac.n) \div dayfrac.d),
               date.offset)

\* approxSunRiseSet(m0, h0): <<m0, m1, m2>>, each brought into [0, 1).
approxSunRiseSet(m0, h0) ==
  << limit_degrees(m0, Rat(1, 1)),
     limit_degrees(fsub(m0, fdiv(h0, Deg360)), Rat(1, 1)),
     limit_degrees(fadd(m0, fdiv(h0, Deg360)), Rat(1, 1)) >>

\* sunRiseSetTransit from `const m_rts = approxSunRiseSet(m0, h0)` to the
\* three instants.  `trim` is the term -sta / 360 of the transit; `rise` and
\* `set` are the terms (h_rts - h0_prime) / (360 cos cos sin) that
\* sun_rise_and_set adds to the fractions of the sunrise and of the sunset.
riseSetInstants(date, m0, h0, trim, rise, set) ==
  Only({ [sunTransit |-> dateFromDayFrac(fadd(m_rts[1], trim), date),
          sunRise |-> dateFromDayFrac(fadd(m_rts[2], rise), date),
          sunSet |-> dateFromDayFrac(fadd(m_rts[3], set), date)]
    : m_rts \in {approxSunRiseSet(m0, h0)} })

\* julian(date)
julian(date) ==
  Only({ Only({ Only({ [jd |-> jd, jc |-> julianCentury(jd), jde |-> jde, jce |-> jce,
         jme |-> julianEphemerisMillennium(jce)]
        : jce \in {julianEphemerisCentury(jde)} })
      : jde \in {julianEphemerisDay(jd, deltaT(date))} })
    : jd \in {julianDay(date, Num(0))} })

\* geoRA_D(date)
\* `at` records the ephemeris day the two angles are computed for.
geoRA_D(date) ==
  Only({ [alpha |-> Astro(<<j.jme, j.jce>>), delta |-> geocentricDeclination(j.jde),
          at |-> j.jde]
    : j \in {julian(date)} })

\* gAST(jd, jc, jde, jce, jme)
gAST(jd, jc, jde, jce, jme) == Astro(<<jd, jc, jde, jce, jme>>)

\* sunriseSunset(date, lat, lng)
sunriseSunset(date, lat, lng) ==
  Only({ Only({ LET h0_prime == -1 * (SUN_RADIUS + REFRACTION_AT_SUNSET)
          nu == gAST(j.jd, j.jc, j.jde, j.jce, j.jme)
          m0 == Astro(<<vals[2].alpha, lng, nu>>)
          h0 == sunHourAngleAtRiseSet(lat, vals[2].delta, h0_prime)
          \* where the three samples and the sidereal time were evaluated
          sampled == <<vals[1].at, vals[2].at, vals[3].at>>
      IN IF h0 = Num(SENTINEL)
         THEN [sunRise |-> Null, sunSet |-> Null, sampled |-> sampled, nuAt |-> j.jde]
         ELSE Only({ [sunRise |-> dateFromDayFrac(rts, date),
                                 sunSet |-> dateFromDayFrac(rts, date),
                                 sampled |-> sampled, nuAt |-> j.jde]
                : rts \in {Astro(<<nu, m0, h0, deltaT(date),
                     vals[1].alpha, vals[2].alpha, vals[3].alpha,
                     vals[1].delta, vals[2].delta, vals[3].delta, lat, lng>>)} })
      : vals \in {<<geoRA_D(plusDays(date, -1)), geoRA_D(date), geoRA_D(plusDays(date, 1))>>} })
    : j \in {julian(startOfDay(date))} })

\* azimuth(date, elevation, latitude, longitude): julian(date) calls
\* date.toUTC(), a TypeError on null.
azimuth(date, elevation, latitude, longitude) ==
  IF date = Null THEN TypeError
  ELSE Astro(<<date.dayfrac, elevation, latitude, longitude>>)

(***************************************************************************)
(* Equation of time.  Angles are whole thousandths of a degree, the small  *)
(* terms ten-millionths; minutes are exact: `milli` thousandths and `rest` *)
(* ten-millionths (0 .. 9999) of a minute                                  *)
(***************************************************************************)
Minutes(milli, rest) == [milli |-> milli + rest \div 10000, rest |-> rest % 10000]

MinutesLeq(a, b) == a.milli < b.milli \/ (a.milli = b.milli /\ a.rest <= b.rest)

MinutesAbs(a) == IF a.milli < 0 THEN Minutes(-a.milli, -a.rest) ELSE a

MinutesPlus(a, wholeMinutes) == Minutes(a.milli + 1000 * wholeMinutes, a.rest)

\* equationOfTime without its adjustment: the raw minutes.
equationOfTime_unwrapped(M, alpha, nutation) ==
  Minutes(4 * (M - alpha), 4 * (nutation - 57183))

\* equationOfTime(jme, alpha, delta_psi, epsilon), src/src/spa.js, with M for
\* sunMeanLongitude(jme) and `nutation` for delta_psi * Math.cos(deg2rad(epsilon)):
\* degrees = M - 0.0057183 - alpha + nutation, minutes = degrees * 4.
equationOfTime(M, alpha, nutation) ==
  Only({ IF MinutesLeq(MinutesAbs(minutes), Minutes(20 * 1000, 0)) THEN minutes
         ELSE IF ~MinutesLeq(Minutes(-20 * 1000, 0), minutes)
              THEN MinutesPlus(minutes, 1440)
              ELSE MinutesPlus(minutes, -1440)
    : minutes \in {Minutes(4 * (M - alpha), 4 * (nutation - 57183))} })

(***************************************************************************)
(* The point at a distance and an azimuth from a point.  Latitudes and     *)
(* longitudes are whole millionths of a degree, distances whole metres,    *)
(* azimuths whole degrees.  A row <<lat, dist, azimuth, lat2, turn>> holds, *)
(* for an origin latitude, a distance and an azimuth, the two              *)
(* trigonometric terms of latLngFromAzimuth as IEEE doubles give them, in  *)
(* millionths of a degree rounded by Math.round: lat2, the Math.asin term,  *)
(* and turn, the Math.atan2 term that is added to the origin's longitude.  *)
(* The radius is geocentricRadius(lat, 0) with RADIUS_A = 6378137.0 and    *)
(* RADIUS_B = 6356752.3                                                    *)
(***************************************************************************)
geodesicRows ==
  {
    <<-45573763, 100000, 0, -44673915, 0>>, <<-45306673, 100000, 45, -44666876, 894647>>,
    <<-45306673, 100000, 315, -44666876, -894647>>, <<-44859502, 20620, 0, -44673961, 0>>,
    <<-44805010, 20620, 45, -44673665, 184492>>, <<-44805010, 20620, 315, -44673665, -184492>>,
    <<-44674863, 100, 0, -44673963, 0>>, <<-44674599, 100, 45, -44673963, 895>>,
    <<-44674599, 100, 315, -44673963, -895>>, <<-44673963, 100, 0, -44673063, 0>>,
    <<-44673963, 100, 45, -44673327, 895>>, <<-44673963, 100, 90, -44673963, 1265>>,
    <<-44673963, 100, 135, -44674599, 895>>, <<-44673963, 100, 180, -44674863, 0>>,
    <<-44673963, 100, 225, -44674599, -895>>, <<-44673963, 100, 270, -44673963, -1265>>,
    <<-44673963, 100, 315, -44673327, -895>>, <<-44673963, 20620, 0, -44488424, 0>>,
    <<-44673963, 20620, 45, -44542619, 184075>>, <<-44673963, 20620, 90, -44673666, 260910>>,
    <<-44673963, 20620, 135, -44805010, 184911>>, <<-44673963, 20620, 180, -44859502, 0>>,
    <<-44673963, 20620, 225, -44805010, -184911>>, <<-44673963, 20620, 270, -44673666, -260910>>,
    <<-44673963, 20620, 315, -44542619, -184075>>, <<-44673963, 100000, 0, -43774163, 0>>,
    <<-44673963, 100000, 45, -44034266, 885008>>, <<-44673963, 100000, 90, -44666978, 1265228>>,
    <<-44673963, 100000, 135, -45306673, 904656>>, <<-44673963, 100000, 180, -45573763, 0>>,
    <<-44673963, 100000, 225, -45306673, -904656>>, <<-44673963, 100000, 270, -44666978, -1265228>>,
    <<-44673963, 100000, 315, -44034266, -885008>>, <<-44673666, 20620, 90, -44673369, 260909>>,
    <<-44673666, 20620, 270, -44673369, -260909>>, <<-44673327, 100, 135, -44673963, 895>>,
    <<-44673327, 100, 225, -44673963, -895>>, <<-44673063, 100, 180, -44673963, 0>>,
    <<-44666978, 100000, 90, -44659995, 1265075>>, <<-44666978, 100000, 270, -44659995, -1265075>>,
    <<-44542619, 20620, 135, -44673665, 184490>>, <<-44542619, 20620, 225, -44673665, -184490>>,
    <<-44488424, 20620, 180, -44673961, 0>>, <<-44034266, 100000, 135, -44667031, 894582>>,
    <<-44034266, 100000, 225, -44667031, -894582>>, <<-43774163, 100000, 180, -44673916, 0>>,
    <<-898315, 100000, 0, 1, 0>>, <<-635192, 100000, 45, 39, 635192>>,
    <<-635192, 100000, 315, 39, -635192>>, <<-185233, 20620, 0, 0, 0>>,
    <<-130979, 20620, 45, 0, 130979>>, <<-130979, 20620, 315, 0, -130979>>,
    <<-898, 100, 0, 0, 0>>, <<-635, 100, 45, 0, 635>>,
    <<-635, 100, 315, 0, -635>>, <<0, 100, 0, 898, 0>>,
    <<0, 100, 45, 635, 635>>, <<0, 100, 90, 0, 898>>,
    <<0, 100, 135, -635, 635>>, <<0, 100, 180, -898, 0>>,
    <<0, 100, 225, -635, -635>>, <<0, 100, 270, 0, -898>>,
    <<0, 100, 315, 635, -635>>, <<0, 20620, 0, 185233, 0>>,
    <<0, 20620, 45, 130979, 130979>>, <<0, 20620, 90, 0, 185233>>,
    <<0, 20620, 135, -130979, 130979>>, <<0, 20620, 180, -185233, 0>>,
    <<0, 20620, 225, -130979, -130979>>, <<0, 20620, 270, 0, -185233>>,
    <<0, 20620, 315, 130979, -130979>>, <<0, 100000, 0, 898315, 0>>,
    <<0, 100000, 45, 635192, 635231>>, <<0, 100000, 90, 0, 898315>>,
    <<0, 100000, 135, -635192, 635231>>, <<0, 100000, 180, -898315, 0>>,
    <<0, 100000, 225, -635192, -635231>>, <<0, 100000, 270, 0, -898315>>,
    <<0, 100000, 315, 635192, -635231>>, <<635, 100, 135, 0, 635>>,
    <<635, 100, 225, 0, -635>>, <<898, 100, 180, 0, 0>>,
    <<130979, 20620, 135, 0, 130979>>, <<130979, 20620, 225, 0, -130979>>,
    <<185233, 20620, 180, 0, 0>>, <<635192, 100000, 135, -39, 635192>>,
    <<635192, 100000, 225, -39, -635192>>, <<898315, 100000, 180, -1, 0>>,
    <<44100183, 100000, 0, 44999953, 0>>, <<44360252, 100000, 45, 44992989, 899674>>,
    <<44360252, 100000, 315, 44992989, -899674>>, <<44814458, 20620, 0, 44999998, 0>>,
    <<44868652, 20620, 45, 44999699, 185540>>, <<44868652, 20620, 315, 44999699, -185540>>,
    <<44992935, 100000, 90, 44985872, 1272272>>, <<44992935, 100000, 270, 44985872, -1272272>>,
    <<44999100, 100, 0, 45000000, 0>>, <<44999364, 100, 45, 45000000, 900>>,
    <<44999364, 100, 315, 45000000, -900>>, <<44999700, 20620, 90, 44999400, 262394>>,
    <<44999700, 20620, 270, 44999400, -262394>>, <<45000000, 100, 0, 45000900, 0>>,
    <<45000000, 100, 45, 45000636, 900>>, <<45000000, 100, 90, 45000000, 1273>>,
    <<45000000, 100, 135, 44999364, 900>>, <<45000000, 100, 180, 44999100, 0>>,
    <<45000000, 100, 225, 44999364, -900>>, <<45000000, 100, 270, 45000000, -1273>>,
    <<45000000, 100, 315, 45000636, -900>>, <<45000000, 20620, 0, 45185542, 0>>,
    <<45000000, 20620, 45, 45131048, 185968>>, <<45000000, 20620, 90, 44999700, 262396>>,
    <<45000000, 20620, 135, 44868652, 185118>>, <<45000000, 20620, 180, 44814458, 0>>,
    <<45000000, 20620, 225, 44868652, -185118>>, <<45000000, 20620, 270, 44999700, -262396>>,
    <<45000000, 20620, 315, 45131048, -185968>>, <<45000000, 100000, 0, 45899817, 0>>,
    <<45000000, 100000, 45, 45632681, 909921>>, <<45000000, 100000, 90, 44992935, 1272429>>,
    <<45000000, 100000, 135, 44360252, 889936>>, <<45000000, 100000, 180, 44100183, 0>>,
    <<45000000, 100000, 225, 44360252, -889936>>, <<45000000, 100000, 270, 44992935, -1272429>>,
    <<45000000, 100000, 315, 45632681, -909921>>, <<45000636, 100, 135, 45000000, 900>>,
    <<45000636, 100, 225, 45000000, -900>>, <<45000900, 100, 180, 45000000, 0>>,
    <<45131048, 20620, 135, 44999698, 185543>>, <<45131048, 20620, 225, 44999698, -185543>>,
    <<45185542, 20620, 180, 44999998, 0>>, <<45632681, 100000, 135, 44992832, 899738>>,
    <<45632681, 100000, 225, 44992832, -899738>>, <<45899817, 100000, 180, 44999952, 0>>,
    <<59099425, 100000, 0, 59999958, 0>>, <<59357197, 100000, 45, 59987878, 1273149>>,
    <<59357197, 100000, 315, 59987878, -1273149>>, <<59814301, 20620, 0, 59999998, 0>>,
    <<59868432, 20620, 45, 59999479, 262612>>, <<59868432, 20620, 315, 59999479, -262612>>,
    <<59987744, 100000, 90, 59975494, 1800038>>, <<59987744, 100000, 270, 59975494, -1800038>>,
    <<59999099, 100, 0, 60000000, 0>>, <<59999363, 100, 45, 60000000, 1274>>,
    <<59999363, 100, 315, 60000000, -1274>>, <<59999479, 20620, 90, 59998958, 371387>>,
    <<59999479, 20620, 270, 59998958, -371387>>, <<60000000, 100, 0, 60000901, 0>>,
    <<60000000, 100, 45, 60000637, 1274>>, <<60000000, 100, 90, 60000000, 1801>>,
    <<60000000, 100, 135, 59999363, 1274>>, <<60000000, 100, 180, 59999099, 0>>,
    <<60000000, 100, 225, 59999363, -1274>>, <<60000000, 100, 270, 60000000, -1801>>,
    <<60000000, 100, 315, 60000637, -1274>>, <<60000000, 20620, 0, 60185699, 0>>,
    <<60000000, 20620, 45, 60131047, 263663>>, <<60000000, 20620, 90, 59999479, 371393>>,
    <<60000000, 20620, 135, 59868432, 261578>>, <<60000000, 20620, 180, 59814301, 0>>,
    <<60000000, 20620, 225, 59868432, -261578>>, <<60000000, 20620, 270, 59999479, -371393>>,
    <<60000000, 20620, 315, 60131047, -263663>>, <<60000000, 100000, 0, 60900575, 0>>,
    <<60000000, 100000, 45, 60630540, 1298491>>, <<60000000, 100000, 90, 59987744, 1800705>>,
    <<60000000, 100000, 135, 59357197, 1249454>>, <<60000000, 100000, 180, 59099425, 0>>,
    <<60000000, 100000, 225, 59357197, -1249454>>, <<60000000, 100000, 270, 59987744, -1800705>>,
    <<60000000, 100000, 315, 60630540, -1298491>>, <<60000637, 100, 135, 60000000, 1274>>,
    <<60000637, 100, 225, 60000000, -1274>>, <<60000901, 100, 180, 60000000, 0>>,
    <<60131047, 20620, 135, 59999477, 262616>>, <<60131047, 20620, 225, 59999477, -262616>>,
    <<60185699, 20620, 180, 59999999, 0>>, <<60630540, 100000, 135, 59987563, 1273220>>,
    <<60630540, 100000, 225, 59987563, -1273220>>, <<60900575, 100000, 180, 59999959, 0>>
  }

\* latLngFromAzimuth with the longitude always turned to the east.
latLngFromAzimuth_eastward(latlng1, dist, bearing) ==
  Only({ [lat |-> row[4], lng |-> latlng1[2] + Abs(row[5])]
    : row \in { r \in geodesicRows :
                  r[1] = latlng1[1] /\ r[2] = dist /\ r[3] = bearing } })

\* latLngFromAzimuth(latlng1, dist, azimuth, elev = 0), `bearing` standing
\* for the argument azimuth: lat2 is the asin
\* term, lng2 = lng_rad + the atan2 term; both are returned in degrees
\* rounded to six decimals, the longitude as the sum comes out.
latLngFromAzimuth(latlng1, dist, bearing) ==
  Only({ [lat |-> row[4], lng |-> latlng1[2] + row[5]]
    : row \in { r \in geodesicRows :
                  r[1] = latlng1[1] /\ r[2] = dist /\ r[3] = bearing } })

(***************************************************************************)
(* The test case of the source: the worked example of the NREL report.     *)
(* The periodic series and the trigonometry of the constructor are beyond  *)
(* the arithmetic here; for the arguments of testCase the terms they yield *)
(* in IEEE doubles are tabulated, in millionths of a degree (the equation  *)
(* of time in Minutes), and the attributes that are sums and differences   *)
(* of terms are computed from them.                                        *)
(***************************************************************************)
MicroDegrees(degrees) == degrees * 1000 * 1000

\* testDate = DateTime.utc(2003, 10, 17, 19, 30, 30)
testDate ==
  [year |-> 2003, month |-> 10, day |-> 17, second |-> 19 * 3600 + 30 * 60 + 30,
   offset |-> 0]

\* localLat, localLong (1e-7 degree), localElev (centimetres), localTemp,
\* localPressure and delta_t of testCase, as the snapshot holds them.
testCaseSite ==
  [date |-> testDate, latitude |-> Num(397424760), longitude |-> Num(-1051786000),
   elevation |-> Num(183014), temp |-> Num(11), pressure |-> Num(820),
   delta_t |-> Num(67 * TicksPerSecond)]

\* heliocentricLongitude(jme), the uncorrectedElevation of topocentricZenith,
\* atmosphericRefractionCorrection(e0, pressure, temp), the angle gamma of
\* topocentricAzimuthAngle and equationOfTime(jme, alpha, del_psi, epsilon)
\* for the snapshot of testCase.
testCaseTerms ==
  [l |-> 24018262, e0 |-> 39872046, del_e |-> 16332, azimuth_astro |-> 14340241,
   eot |-> Minutes(14641, 5108)]

\* zenith.elevationAngle with the refraction left out.
elevationAngle_uncorrected(e0, del_e) == e0

\* zenith.elevationAngle: uncorrectedElevationAngle +
\* atmosphericRefractionCorrection(uncorrectedElevationAngle, pressure, temp),
\* the correction being the value of this.del_e.
elevationAngle(e0, del_e) ==
  IF e0.t = "num" /\ del_e.t = "num" THEN Num(e0.v + del_e.v) ELSE e0

\* zenithAngle = 90 - elevationAngle
zenithAngle(e) == IF e.t = "num" THEN Num(MicroDegrees(90) - e.v) ELSE e

\* navigators = limit_degrees(gamma + 180), exact on millionths of a degree.
navigators(gamma) ==
  IF gamma.t = "num" THEN Num((gamma.v + MicroDegrees(180)) % MicroDegrees(360))
  ELSE gamma

(***************************************************************************)
(* The snapshot: new SPA(...) assigns the attributes of `this` one after    *)
(* the other.  SPASteps lists the assignments in the order of the source,   *)
(* each with the attributes of `this` its right-hand side reads.            *)
(***************************************************************************)
Step(attr, reads) == [attr |-> attr, reads |-> reads]

SPASteps ==
  << Step("date", <<>>), Step("latitude", <<>>), Step("longitude", <<>>),
     Step("latlng", <<"latitude", "longitude">>),
     Step("elevation", <<>>), Step("temp", <<>>), Step("pressure", <<>>),
     Step("jd", <<"date", "delta_ut1">>),
     Step("jc", <<"jd">>),
     Step("delta_t", <<>>),
     Step("delta_ut1", <<>>),
     Step("jde", <<"jd", "delta_t">>),
     Step("jce", <<"jde">>),
     Step("jme", <<"jce">>),
     Step("l", <<"jme">>), Step("b", <<"jme">>), Step("r", <<"jme">>),
     Step("theta", <<"l">>), Step("beta", <<"b">>),
     Step("x_factors", <<"jce">>),
     Step("del_psi", <<"jce", "x_factors">>),
     Step("del_epsilon", <<"jce", "x_factors">>),
     Step("epsilon", <<"jme", "jce">>),
     Step("del_tau", <<"r">>),
     Step("lambda", <<"theta", "del_psi", "del_tau">>),
     Step("nu", <<"jd", "jc", "jde", "del_psi", "epsilon">>),
     Step("alpha", <<"lambda", "epsilon", "beta">>),
     Step("delta", <<"lambda", "epsilon", "beta">>),
     Step("h", <<"nu", "longitude", "alpha">>),
     Step("delta_prime", <<"latitude", "elevation", "r", "h", "delta", "alpha">>),
     Step("alpha_prime", <<>>), Step("h_prime", <<>>),
     Step("e0", <<"latitude", "h_prime", "delta_prime", "pressure", "temp">>),
     Step("del_e", <<"e0", "pressure", "temp">>),
     Step("e", <<>>),
     Step("eot", <<"jme", "alpha", "del_psi", "epsilon">>),
     Step("zenith", <<>>),
     Step("azimuth_astro", <<"latitude", "h_prime", "delta_prime">>),
     Step("azimuth", <<>>),
     Step("sunsetAzimuth", <<"date", "latitude", "longitude", "elevation">>),
     Step("sunriseAzimuth", <<"elevation", "latitude", "longitude">>) >>

\* this.k: undefined while k is not assigned.
Get(this, k) == IF k \in DOMAIN this THEN this[k] ELSE Undefined

\* The right-hand side of the assignment to this.attr.  alpha_prime and
\* h_prime come from the constant `topocentric` computed for delta_prime, e
\* and zenith from the constant `zenith` computed for e0, azimuth from `azi`.
SPAValue(step, this, args) ==
  LET attr == step.attr
      operands == [i \in 1 .. Len(step.reads) |-> Get(this, step.reads[i])]
      tabulated == /\ attr \in DOMAIN testCaseTerms
                   /\ [k \in DOMAIN testCaseSite |-> Get(this, k)] = testCaseSite
  IN CASE attr \in {"date", "latitude", "longitude", "elevation", "temp", "pressure"}
            -> args[attr]
       [] tabulated -> Num(testCaseTerms[attr])
       [] attr = "latlng"
            -> [lat |-> Get(this, "latitude"), lng |-> Get(this, "longitude")]
       [] attr = "jd" -> julianDay(Get(this, "date"), Get(this, "delta_ut1"))
       [] attr = "jc" -> julianCentury(Get(this, "jd"))
       [] attr = "delta_t"
            -> IF args.delta_t = Null THEN deltaT(args.date) ELSE args.delta_t
       [] attr = "delta_ut1"
            -> IF args.delta_ut1 = Null THEN Num(0) ELSE args.delta_ut1
       [] attr = "jde" -> julianEphemerisDay(Get(this, "jd"), Get(this, "delta_t"))
       [] attr = "jce" -> julianEphemerisCentury(Get(this, "jde"))
       [] attr = "jme" -> julianEphemerisMillennium(Get(this, "jce"))
       [] attr = "delta"
            -> IF Astro(operands) = Fin THEN geocentricDeclination(Get(this, "jde"))
               ELSE NaN
       [] attr \in {"alpha_prime", "h_prime"} -> Get(this, "delta_prime")
       [] attr = "e" -> elevationAngle(Get(this, "e0"), Get(this, "del_e"))
       [] attr = "zenith" -> zenithAngle(Get(this, "e"))
       [] attr = "azimuth" -> navigators(Get(this, "azimuth_astro"))
       [] attr = "sunsetAzimuth"
            -> Only({ azimuth(rs.sunSet, Get(this, "elevation"),
                                        Get(this, "latitude"), Get(this, "longitude"))
                 : rs \in {sunriseSunset(Get(this, "date"), Get(this, "latitude"),
                      Get(this, "longitude"))} })
       [] attr = "sunriseAzimuth"
            -> Only({ azimuth(rs.sunRise, Get(this, "elevation"),
                                        Get(this, "latitude"), Get(this, "longitude"))
                 : rs \in {sunriseSunset(Get(this, "date"), Get(this, "latitude"),
                      Get(this, "longitude"))} })
       [] OTHER -> Astro(operands)

\* The assignments lo .. hi of the constructor applied to `this`, in their
\* order: the first half, then the second half on its outcome.
RECURSIVE RunSteps(_, _, _, _)
RunSteps(lo, hi, this, args) ==
  IF lo = hi
  THEN (SPASteps[lo].attr :> SPAValue(SPASteps[lo], this, args)) @@ this
  ELSE Only({ RunSteps((lo + hi) \div 2 + 1, hi, assigned, args)
         : assigned \in {RunSteps(lo, (lo + hi) \div 2, this, args)} })

\* The reads <<attr, k>> of a this.k that no earlier step has assigned.
UnsetReads ==
  UNION { { <<SPASteps[i].attr, SPASteps[i].reads[k]>> :
              k \in { k \in 1 .. Len(SPASteps[i].reads) :
                        SPASteps[i].reads[k] \notin { SPASteps[j].attr : j \in 1 .. i - 1 } } } :
          i \in 1 .. Len(SPASteps) }

\* new SPA(date, latitude, longitude, elevation, temp, pressure,
\*         delta_t = null, delta_ut1 = null): the snapshot, or the TypeError
\* of azimuth(null, ...).
SPA(date, latitude, longitude, elevation, temp, pressure, delta_t, delta_ut1) ==
  Only({ Only({ IF this.sunsetAzimuth = TypeError \/ this.sunriseAzimuth = TypeError
           THEN [status |-> "threw", error |-> "TypeError"]
           ELSE [status |-> "returned", this |-> this]
           : this \in {RunSteps(2, Len(SPASteps), "date" :> args.date, args)} })
    : args \in {[date |-> date, latitude |-> latitude, longitude |-> longitude,
         elevation |-> elevation, temp |-> temp, pressure |-> pressure,
         delta_t |-> IF delta_t = Undefined THEN Null ELSE delta_t,
         delta_ut1 |-> IF delta_ut1 = Undefined THEN Null ELSE delta_ut1]} })

\* add_days counting the days backwards.
add_days_backwards(this, days) ==
  SPA(plusDays(this.date, -days), this.latitude, this.longitude, this.elevation,
      this.temp, this.pressure, this.delta_t, this.delta_ut1)

\* this.add_days(days)
add_days(this, days) ==
  SPA(plusDays(this.date, days), this.latitude, this.longitude, this.elevation,
      this.temp, this.pressure, this.delta_t, this.delta_ut1)

\* The six outputs with every one of them the sentinel only in part: the
\* transit is computed although the sun never reaches the elevation.
rtsOutputs_partial(snapshot, nu, alpha, delta, m0, h0) ==
  LET sta == Astro(<<nu, m0, Get(snapshot, "longitude"), alpha[1], alpha[2], alpha[3]>>)
  IN [srha |-> Num(SENTINEL), ssha |-> Num(SENTINEL), sta |-> sta,
      sunTransit |-> dateFromDayFrac(Astro(<<m0, sta>>), snapshot.date),
      sunRise |-> Num(SENTINEL), sunSet |-> Num(SENTINEL)]

\* sunRiseSetTransit from `if (h0 >= 0)` to its return: h0 is an angle in
\* [0, 180) or the sentinel; h_prime is a limit_degrees180pm(...).
rtsOutputs(snapshot, nu, alpha, delta, m0, h0) ==
  IF h0 # Num(SENTINEL) /\ h0 # NaN
  THEN LET m_rts == Astro(<<m0, h0>>)
           n == Astro(<<m_rts, Get(snapshot, "delta_t")>>)
           alpha_prime == Astro(<<alpha[1], alpha[2], alpha[3], n>>)
           delta_prime == Astro(<<delta[1], delta[2], delta[3], n>>)
           h_prime == Astro(<<nu, m_rts, Get(snapshot, "longitude"), alpha_prime>>)
           h_rts == Astro(<<Get(snapshot, "latitude"), delta_prime, h_prime>>)
           rise_set == Astro(<<m_rts, h_rts, delta_prime, Get(snapshot, "latitude"), h_prime>>)
       IN [srha |-> h_prime, ssha |-> h_prime, sta |-> h_prime,
           sunTransit |-> dateFromDayFrac(Astro(<<m_rts, h_prime>>), snapshot.date),
           sunRise |-> dateFromDayFrac(rise_set, snapshot.date),
           sunSet |-> dateFromDayFrac(rise_set, snapshot.date)]
  ELSE [srha |-> Num(SENTINEL), ssha |-> Num(SENTINEL), sta |-> Num(SENTINEL),
        sunTransit |-> Num(SENTINEL), sunRise |-> Num(SENTINEL),
        sunSet |-> Num(SENTINEL)]

\* sunRiseSetTransit(spa): the result, or the TypeError of one of the
\* snapshots it constructs.
sunRiseSetTransit(snapshot) ==
  LET h0_prime == -1 * (SUN_RADIUS + REFRACTION_AT_SUNSET)
      midnightUT == startOfDay(snapshot.date)
      threw == [status |-> "threw", error |-> "TypeError"]
  IN Only({ IF nuSpa.status = "threw" THEN threw
     ELSE Only({ IF sun_rts.status = "threw" THEN threw
     \* [-1, 0, 1].forEach: newSpa[i + 2] is sun_rts.add_days(i)
     ELSE Only({ IF before.status = "threw" THEN threw
     ELSE Only({ IF same.status = "threw" THEN threw
     ELSE Only({ IF after.status = "threw" THEN threw
     ELSE LET nu == nuSpa.this.nu
              alpha == <<before.this.alpha, same.this.alpha, after.this.alpha>>
              delta == <<before.this.delta, same.this.delta, after.this.delta>>
              m0 == Astro(<<alpha[2], snapshot.longitude, nu>>)
              h0 == sunHourAngleAtRiseSet(snapshot.latitude, delta[2], h0_prime)
          IN [status |-> "returned", h0 |-> h0,
              result |-> rtsOutputs(snapshot, nu, alpha, delta, m0, h0),
              \* the arrays alpha and delta are filled from these three
              \* snapshots, nu is read from the fourth
              delta |-> delta,
              sampled |-> <<before.this.jde, same.this.jde, after.this.jde>>,
              nuAt |-> nuSpa.this.jde]
            : after \in {add_days(sun_rts.this, 1)} })
            : same \in {add_days(sun_rts.this, 0)} })
            : before \in {add_days(sun_rts.this, -1)} })
            : sun_rts \in {SPA(midnightUT, snapshot.latitude, snapshot.longitude,
                 snapshot.elevation, snapshot.temp, snapshot.pressure, Num(0), Num(0))} })
       : nuSpa \in {SPA(midnightUT, snapshot.latitude, snapshot.longitude, snapshot.elevation,
            snapshot.temp, snapshot.pressure, Get(snapshot, "delta_t"), Num(0))} })

(***************************************************************************)
(* The application's snapshot: `spa` is the last snapshot constructed,     *)
(* `out` the outcome of the last operation.                                *)
(***************************************************************************)
\* Site constants of the application.
pressure == 1013

temp == 27

elev == 10

\* Request dates: the reference instant of the source's testCase and its
\* local evening (UTC-7), the days around the June solstice of 2019, a day
\* of late spring, the December solstice and 31 December, at noon UTC.
SnapshotDates ==
  { [year |-> 2003, month |-> 10, day |-> 17, second |-> 70230, offset |-> 0],
    [year |-> 2019, month |-> 9, day |-> 28, second |-> 65220, offset |-> -420],
    [year |-> 2019, month |-> 6, day |-> 21, second |-> 43200, offset |-> 0],
    [year |-> 2019, month |-> 6, day |-> 22, second |-> 43200, offset |-> 0],
    [year |-> 2019, month |-> 6, day |-> 1, second |-> 43200, offset |-> 0],
    [year |-> 2019, month |-> 12, day |-> 21, second |-> 43200, offset |-> 0],
    [year |-> 2019, month |-> 12, day |-> 31, second |-> 43200, offset |-> 0] }

\* Observers, in 1e-7 degree: the two of testCase, two inside the polar
\* circles, and two near the northern polar circle.
Places ==
  { [latitude |-> 397424760, longitude |-> -1051786000],
    [latitude |-> 377390240, longitude |-> -1221899050],
    [latitude |-> 800000000, longitude |-> 0],
    [latitude |-> -800000000, longitude |-> 0],
    [latitude |-> 657313645, longitude |-> 0],
    [latitude |-> 670800000, longitude |-> 0] }

\* The delta_t argument: left out, or testCase's 67 s (in ticks).
DeltaTArgs == {Undefined, Num(67 * TicksPerSecond)}

\* The delta_ut1 argument: left out, 0, or half a second.
DeltaUT1Args == {Undefined, Num(0), Num(TicksPerSecond \div 2)}

\* spa = new SPA(date, lat, lng, elev, temp, pressure[, delta_t, delta_ut1]):
\* a TypeError leaves `spa` as it was.  A behaviour follows one request.
NewSPA ==
  \E date \in SnapshotDates, place \in Places,
     delta_t \in DeltaTArgs, delta_ut1 \in DeltaUT1Args :
    /\ spa = NoSpa /\ out = NoOut
    /\ \E made \in { SPA(date, Num(place.latitude), Num(place.longitude), Num(100 * elev),
                        Num(temp), Num(pressure), delta_t, delta_ut1) } :
       /\ IF made.status = "returned"
          THEN /\ spa' = made.this
               /\ out' = [op |-> "new SPA", status |-> "returned",
                          unsetReads |-> UnsetReads]
          ELSE /\ spa' = spa
               /\ out' = [op |-> "new SPA", status |-> "threw",
                          error |-> made.error, date |-> date,
                          latitude |-> place.latitude, unsetReads |-> UnsetReads]
       /\ UNCHANGED <<calc, ui>>

\* testCase(): spaTest = new SPA(testDate, localLat, localLong, localElev,
\* localTemp, localPressure, delta_t, delta_ut1) with delta_ut1 = 0.
RunTestCase ==
  /\ spa = NoSpa /\ out = NoOut
  /\ \E made \in { SPA(testCaseSite.date, testCaseSite.latitude, testCaseSite.longitude,
                        testCaseSite.elevation, testCaseSite.temp, testCaseSite.pressure,
                        testCaseSite.delta_t, Num(0)) } :
       /\ made.status = "returned"
       /\ spa' = made.this
       /\ out' = [op |-> "new SPA", status |-> "returned", unsetReads |-> UnsetReads]
  /\ UNCHANGED <<calc, ui>>

\* sunRiseSetTransit(spa) with an assignment of the day's midnight to the
\* snapshot's date.
CallSunRiseSetTransit_assigning ==
  /\ spa # NoSpa
  /\ out' = [op |-> "sunRiseSetTransit"] @@ sunRiseSetTransit(spa)
  /\ spa' = [spa EXCEPT !.date = startOfDay(spa.date)]
  /\ UNCHANGED <<calc, ui>>

\* sunRiseSetTransit(spa) on the current snapshot.
CallSunRiseSetTransit ==
  /\ spa # NoSpa
  /\ out' = [op |-> "sunRiseSetTransit"] @@ sunRiseSetTransit(spa)
  /\ UNCHANGED <<calc, spa, ui>>

\* sunriseSunset(date, lat, lng) for the date and the place of the current
\* snapshot, next to sunRiseSetTransit(spa) for the same snapshot.
CallSunriseSunset ==
  /\ spa # NoSpa
  /\ out' = [op |-> "sunriseSunset", transit |-> sunRiseSetTransit(spa)]
               @@ sunriseSunset(spa.date, spa.latitude, spa.longitude)
  /\ UNCHANGED <<calc, spa, ui>>

\* sunriseSunset(date, lat, lng) called on its own, before any snapshot
\* exists, for a request date and a place.
CallSunriseSunsetAlone ==
  /\ spa = NoSpa /\ out = NoOut
  /\ \E date \in SnapshotDates, place \in Places :
       out' = [op |-> "sunriseSunset alone", date |-> date, latitude |-> place.latitude]
                @@ sunriseSunset(date, Num(place.latitude), Num(place.longitude))
  /\ UNCHANGED <<calc, spa, ui>>

\* Numbers of days for add_days: the three of sunRiseSetTransit and a month.
DayOffsets == {-1, 0, 1, 30}

\* spa.add_days(days) on the current snapshot: the snapshot it returns, or
\* the TypeError of its constructor, is the outcome; `spa` is not assigned.
CallAddDays ==
  /\ spa # NoSpa
  /\ \E days \in DayOffsets :
       out' = [op |-> "add_days", days |-> days] @@ add_days(spa, days)
  /\ UNCHANGED <<calc, spa, ui>>

\* new SPA(...) once more, after sunRiseSetTransit or add_days, with the
\* date, the place and the site constants of the current snapshot; the
\* snapshot constructed is the outcome and `spa` stays the earlier one.
NewSPAAgain ==
  /\ spa # NoSpa
  /\ out.op \in {"sunRiseSetTransit", "add_days"}
  /\ \E delta_t \in DeltaTArgs, delta_ut1 \in DeltaUT1Args :
       out' = [op |-> "new SPA again", delta_t |-> delta_t, delta_ut1 |-> delta_ut1,
               after |-> out.op]
              @@ SPA(spa.date, spa.latitude, spa.longitude, spa.elevation, spa.temp,
                     spa.pressure, delta_t, delta_ut1)
  /\ UNCHANGED <<calc, spa, ui>>

Init == calc = NoCall /\ spa = NoSpa /\ out = NoOut /\ NoUi

Next ==
  \/ NewSPA \/ RunTestCase \/ CallSunRiseSetTransit \/ CallSunriseSunset
  \/ CallSunriseSunsetAlone
  \/ CallAddDays \/ NewSPAAgain

Spec == Init /\ [][Next]_vars

(***************************************************************************)
(* Properties of the snapshot and the solver (checked under Spec)          *)
(***************************************************************************)
Did(op) == out # NoOut /\ out.op = op

\* The six outputs of a returned result.
SixOutputs(result) ==
  {result.srha, result.ssha, result.sta, result.sunTransit, result.sunRise, result.sunSet}

\* C1: sunRiseSetTransit(spa) never throws for a snapshot of a valid date
\* and location: it completes, on a polar day or night with the sentinel.
C1_SolverNeverThrows == Did("sunRiseSetTransit") => out.status = "returned"

\* C2: a returned result is all-or-nothing: all six outputs are the sentinel
\* when sunHourAngleAtRiseSet reports that the sun never reaches the
\* elevation, and none of them is the sentinel otherwise.
C2_AllOrNothing ==
  (Did("sunRiseSetTransit") /\ out.status = "returned")
    => IF out.h0 = Num(SENTINEL)
       THEN SixOutputs(out.result) = {Num(SENTINEL)}
       ELSE Num(SENTINEL) \notin SixOutputs(out.result)

\* A result returned on a day on which the sun never reaches the elevation.
C2_Witness ==
  /\ Did("sunRiseSetTransit") /\ out.status = "returned"
  /\ out.h0 = Num(SENTINEL)
  /\ out.result.sunSet = Num(SENTINEL)

\* C3: constructing a snapshot from a well-formed date and a latitude in
\* [-90, 90] completes and yields a snapshot.
C3_ConstructionCompletes == Did("new SPA") => out.status = "returned"

\* C7: no step of the constructor reads an attribute of the snapshot that
\* is still unset at that point.
C7_NoUnsetRead == Did("new SPA") => out.unsetReads = {}

\* The arguments a snapshot was constructed from, as it holds them.
Carried == {"latitude", "longitude", "elevation", "temp", "pressure", "delta_t", "delta_ut1"}

\* C13: add_days(n) returns a newly constructed snapshot for the date n days
\* later that carries the same latitude, longitude, elevation, temperature,
\* pressure, Delta-T and Delta-UT1; add_days and sunRiseSetTransit leave
\* every attribute of the snapshot they are given as it was.
C13_SnapshotNeverMutated ==
  /\ [](Did("add_days") =>
         /\ out.status = "returned"
         /\ out.this.date = plusDays(spa.date, out.days)
         /\ \A k \in Carried : out.this[k] = spa[k])
  /\ [][spa # NoSpa => spa' = spa]_vars

\* The second construction was given the Delta-T and Delta-UT1 the first
\* one was given: left out, or the values the earlier snapshot holds.
SameArguments ==
  /\ out.delta_t \in {Undefined, spa.delta_t}
  /\ out.delta_ut1 \in {Undefined, spa.delta_ut1}
  /\ out.delta_t = Undefined => spa.delta_t = deltaT(spa.date)
  /\ out.delta_ut1 = Undefined => spa.delta_ut1 = Num(0)

IsTestCase ==
  spa # NoSpa /\ [k \in DOMAIN testCaseSite |-> spa[k]] = testCaseSite

\* x is a number within 1e-4 degree of `published` millionths of a degree.
Matches(x, published) == x.t = "num" /\ Abs(x.v - published) <= 100

MidnightJde(days, delta_t) ==
  julianEphemerisDay(julianDay(plusDays(startOfDay(spa.date), days), Num(0)), delta_t)

\* C23: the three samples of right ascension and declination come from
\* snapshots at 0 h of the day before, of the day and of the day after the
\* snapshot's calendar day, built with Delta-T = 0 and Delta-UT1 = 0 and
\* kept in that order; the sidereal time at 0 h UT of the day comes from a
\* snapshot built with the caller's Delta-T.
C23_ThreeSamples ==
  (Did("sunRiseSetTransit") /\ out.status = "returned") =>
    /\ \A i \in 1 .. 3 :
         /\ out.sampled[i] = MidnightJde(i - 2, Num(0))
         /\ out.delta[i] = geocentricDeclination(out.sampled[i])
    /\ out.nuAt = MidnightJde(0, spa.delta_t)

\* A result for a snapshot with a Delta-T of its own: the sidereal time is
\* taken at another ephemeris day than the middle sample, and the three
\* declinations differ.
C23_Witness ==
  /\ Did("sunRiseSetTransit") /\ out.status = "returned"
  /\ out.nuAt # out.sampled[2]
  /\ out.delta[1] # out.delta[2] /\ out.delta[2] # out.delta[3]
  /\ out.sampled[3].day = out.sampled[1].day + 2

\* C24: sunriseSunset(date, lat, lng) and sunRiseSetTransit of the snapshot
\* for the same date and place evaluate the sidereal time and the three
\* samples at the same ephemeris days, and give the same verdict on whether
\* the sun rises and sets.
C24_SolversAgree ==
  (Did("sunriseSunset") /\ out.transit.status = "returned") =>
    /\ out.sampled = out.transit.sampled
    /\ out.nuAt = out.transit.nuAt
    /\ (out.sunSet = Null) = (out.transit.h0 = Num(SENTINEL))

\* The sun stays above or below the horizon at the middle sample of the
\* sunriseSunset call just made.
Circumpolar ==
  SunNeverReaches(Num(out.latitude), geocentricDeclination(out.sampled[2]),
                  -1 * (SUN_RADIUS + REFRACTION_AT_SUNSET))

\* C25: where the sun does not rise or set, sunriseSunset returns the
\* sentinel -99999 in its fields, as sunRiseSetTransit does.
C25_UniformSentinel ==
  (Did("sunriseSunset alone") /\ Circumpolar) =>
    /\ out.sunRise = Num(SENTINEL)
    /\ out.sunSet = Num(SENTINEL)

(***************************************************************************)
(* The pure-function harness                                               *)
(***************************************************************************)
CallLimitDegrees ==
  /\ calc = NoCall
  /\ \E x \in FloatInputs :
       calc' = [fn |-> "limit_degrees", x |-> x, result |-> limit_degrees(x, Deg360)]
  /\ UNCHANGED <<spa, out, ui>>

CallLimitDegrees180pm ==
  /\ calc = NoCall
  /\ \E x \in FloatInputs :
       calc' = [fn |-> "limit_degrees180pm", x |-> x, result |-> limit_degrees180pm(x)]
  /\ UNCHANGED <<spa, out, ui>>

\* Days in the month m of year y.
DaysInMonth(y, m) ==
  DaysFromCivil(IF m = 12 THEN y + 1 ELSE y, IF m = 12 THEN 1 ELSE m + 1, 1)
    - DaysFromCivil(y, m, 1)

\* Years before, inside and after the table, of three, four and five digits.
CalcYears == {999, 1972, 1973, 2003, 2019, 2020, 2027, 2028, 10000}

\* The first two days and the last two days of every month, at 0 h UTC.
CalcDates ==
  { utc(y, m, d) : y \in CalcYears, m \in 1 .. 12, d \in 1 .. 31 } \cap
  { date \in [year : CalcYears, month : 1 .. 12, day : 1 .. 31,
              second : {0}, offset : {0}] :
      \/ date.day <= 2
      \/ /\ date.day <= DaysInMonth(date.year, date.month)
         /\ date.day >= DaysInMonth(date.year, date.month) - 1 }

\* Instants for julianDay: the NREL reference instant, the test case's local
\* evening (UTC-7), the last second of a day and of a year, noon of J2000.
JulianDates ==
  { [year |-> 2003, month |-> 10, day |-> 17, second |-> 70230, offset |-> 0],
    [year |-> 2019, month |-> 9, day |-> 28, second |-> 65220, offset |-> -420],
    [year |-> 2019, month |-> 6, day |-> 21, second |-> 86399, offset |-> 0],
    [year |-> 2019, month |-> 12, day |-> 31, second |-> 86399, offset |-> 60],
    [year |-> 2000, month |-> 1, day |-> 1, second |-> 43200, offset |-> 0],
    [year |-> 2020, month |-> 2, day |-> 29, second |-> 0, offset |-> 0] }

\* Delta-UT1 arguments, in ticks: -1 s, 0, 1 s; and the argument left out.
DeltaUT1Inputs == {Undefined, Num(-TicksPerSecond), Num(0), Num(TicksPerSecond)}

\* Julian days for the century functions.
JulianDays ==
  { julianDay(plusSeconds(date, 3600 * h), Num(0)) : date \in JulianDates, h \in 0 .. 24 }

CallDeltaT ==
  /\ calc = NoCall
  /\ \E date \in CalcDates :
       calc' = [fn |-> "deltaT", date |-> date, result |-> deltaT(date)]
  /\ UNCHANGED <<spa, out, ui>>

CallJulianDay ==
  /\ calc = NoCall
  /\ \E date \in JulianDates, delta_ut1 \in DeltaUT1Inputs :
       calc' = [fn |-> "julianDay", date |-> date, delta_ut1 |-> delta_ut1,
                result |-> julianDay(date, delta_ut1)]
  /\ UNCHANGED <<spa, out, ui>>

CallJulianCentury ==
  /\ calc = NoCall
  /\ \E jd \in JulianDays :
       calc' = [fn |-> "julianCentury", jd |-> jd, result |-> julianCentury(jd)]
  /\ UNCHANGED <<spa, out, ui>>

CallJulianEphemerisCentury ==
  /\ calc = NoCall
  /\ \E jde \in JulianDays :
       calc' = [fn |-> "julianEphemerisCentury", jde |-> jde,
                result |-> julianEphemerisCentury(jde)]
  /\ UNCHANGED <<spa, out, ui>>

\* Angles in [0, 360), in thousandths of a degree: the mean longitude and
\* the right ascension are results of limit_degrees.
AnglesMilli == {0, 1000, 4000, 25 * 1000, 180 * 1000, 355 * 1000, 359 * 1000, 359999}

\* delta_psi * cos(epsilon), in ten-millionths of a degree: within +-0.005.
NutationTerms == {-50 * 1000, 0, 50 * 1000}

CallEquationOfTime ==
  /\ calc = NoCall
  /\ \E M \in AnglesMilli, alpha \in AnglesMilli, nutation \in NutationTerms :
       calc' = [fn |-> "equationOfTime", M |-> M, alpha |-> alpha,
                nutation |-> nutation, result |-> equationOfTime(M, alpha, nutation)]
  /\ UNCHANGED <<spa, out, ui>>

\* Origins <<lat, lng>>: on the equator next to the antimeridian on either
\* side, the application's starting point, and two northern points.
GeoPoints ==
  { <<0, 179900000>>, <<0, -179900000>>, <<-44673963, 167925682>>,
    <<45000000, 0>>, <<60000000, 10000000>> }

\* Distances in metres: a short hop, the application's horizon distance
\* dist20m * 1000 to the metre, and a hundred kilometres.
GeoDistances == {100, 20620, 100 * 1000}

\* Azimuths, every 45 degrees.
GeoAzimuths == { 45 * k : k \in 0 .. 7 }

CallLatLngFromAzimuth ==
  /\ calc = NoCall
  /\ \E latlng1 \in GeoPoints, dist \in GeoDistances, bearing \in GeoAzimuths :
       calc' = [fn |-> "latLngFromAzimuth", latlng1 |-> latlng1, dist |-> dist,
                azimuth |-> bearing,
                result |-> latLngFromAzimuth(latlng1, dist, bearing)]
  /\ UNCHANGED <<spa, out, ui>>

\* Out and back: the point reached is the origin of a second call with the
\* same distance and the opposite azimuth.
CallThereAndBack ==
  /\ calc = NoCall
  /\ \E latlng1 \in GeoPoints, dist \in GeoDistances, bearing \in GeoAzimuths :
       \E there \in { latLngFromAzimuth(latlng1, dist, bearing) } :
         calc' = [fn |-> "latLngFromAzimuth twice", latlng1 |-> latlng1,
                  dist |-> dist, azimuth |-> bearing, there |-> there,
                  result |-> latLngFromAzimuth(<<there.lat, there.lng>>, dist,
                                               (bearing + 180) % 360)]
  /\ UNCHANGED <<spa, out, ui>>

\* Local dates of the request, the source's test evening and a new year's
\* eve, as wall clock fields without a zone.
RiseSetDays ==
  { [year |-> 2019, month |-> 9, day |-> 28, second |-> 65220],
    [year |-> 2019, month |-> 12, day |-> 31, second |-> 43200] }

\* Zone offsets in minutes east of UTC, from -12 h to +14 h.
ZoneOffsets == { 60 * h : h \in {-12, -7, 0, 1, 9, 12, 14} }

\* Transit fractions m0 in [0, 1): every eighth of a day.
TransitFractions == { Rat(k, 8) : k \in 0 .. 7 }

\* Hour angles H0 in (0, 180), in degrees: days of 6, 12 and 18 hours.
HourAngles == { Rat(45 * k, 1) : k \in 1 .. 3 }

\* The refinements, in days: none, or 1/64 of a day either way.
Refinements == { Rat(k, 64) : k \in -1 .. 1 }

CallRiseSetInstants ==
  /\ calc = NoCall
  /\ \E day \in RiseSetDays, offset \in ZoneOffsets, m0 \in TransitFractions,
        h0 \in HourAngles, trim \in Refinements, rise \in Refinements,
        set \in Refinements :
       \E date \in { [offset |-> offset] @@ day } :
         calc' = [fn |-> "sunRiseSetTransit", date |-> date, m0 |-> m0, h0 |-> h0,
                  result |-> riseSetInstants(date, m0, h0, trim, rise, set)]
  /\ UNCHANGED <<spa, out, ui>>

\* Years around the turns of the centuries, and an ordinary year.
ContinuityYears == {1699, 1700, 1799, 1800, 1899, 1900, 1999, 2000, 2019, 2099, 2100}

\* Days at 0 h UTC at the ends of December, January and February and at the
\* beginning of January, February and March.
ContinuityDates ==
  { date \in [year : ContinuityYears, month : {1, 2, 3, 12}, day : {1, 2, 27, 28, 29, 30, 31},
              second : {0}, offset : {0}] :
      date.day <= DaysInMonth(date.year, date.month) }

\* julianDay of a day and of the day after it.
CallJulianDayTwice ==
  /\ calc = NoCall
  /\ \E date \in ContinuityDates :
       calc' = [fn |-> "julianDay twice", date |-> date,
                result |-> julianDay(date, Num(0)),
                next |-> julianDay(plusDays(date, 1), Num(0))]
  /\ UNCHANGED <<spa, out, ui>>

\* Values of `argument`: inside, on and outside the bounds -1 and 1.
HourAngleArguments ==
  { Rat(-2, 1), Rat(-3, 2), Rat(-1, 1), Rat(-1, 2), Rat(0, 1), Rat(1, 2), Rat(1, 1),
    Rat(3, 2), Rat(2, 1) }

CallSunHourAngleAtRiseSet ==
  /\ calc = NoCall
  /\ \E argument \in HourAngleArguments :
       calc' = [fn |-> "sunHourAngleAtRiseSet", argument |-> argument,
                result |-> hourAngleOf(argument)]
  /\ UNCHANGED <<spa, out, ui>>

\* Three daily samples in degrees: steady, uneven, across 360 -> 0, with
\* steps of three and four degrees, and negative ones.
SampleTriples ==
  { <<Rat(10, 1), Rat(11, 1), Rat(12, 1)>>, <<Rat(10, 1), Rat(21, 2), Rat(45, 4)>>,
    <<Rat(358, 1), Rat(0, 1), Rat(2, 1)>>, <<Rat(356, 1), Rat(0, 1), Rat(1, 1)>>,
    <<Rat(1, 1), Rat(4, 1), Rat(8, 1)>>, <<Rat(-10, 1), Rat(-19, 2), Rat(-9, 1)>>,
    <<Rat(4, 1), Rat(3, 2), Rat(1, 1)>> }

\* Fractions n of the day, in quarters.
DayQuarters == { Rat(k, 4) : k \in 0 .. 4 }

CallRtsAlphaDeltaPrime ==
  /\ calc = NoCall
  /\ \E ad \in SampleTriples, n \in DayQuarters :
       calc' = [fn |-> "rts_alpha_delta_prime", ad |-> ad, n |-> n,
                result |-> rts_alpha_delta_prime(ad, n)]
  /\ UNCHANGED <<spa, out, ui>>

\* Day fractions for dateFromDayFrac: the ends and the inside of [0, 1), and
\* the values a refinement can push outside it.
DayFractions == { Rat(k, 16) : k \in -4 .. 20 }

\* dateFromDayFrac(dayfrac, date) for a DateTime in a zone; `dateAfter` is the
\* caller's DateTime once the call has returned (Luxon's DateTimes are
\* immutable: setZone and plus return new ones).
CallDateFromDayFrac ==
  /\ calc = NoCall
  /\ \E day \in RiseSetDays, offset \in ZoneOffsets, dayfrac \in DayFractions :
       \E date \in { [offset |-> offset] @@ day } :
         calc' = [fn |-> "dateFromDayFrac", date |-> date, dayfrac |-> dayfrac,
                  result |-> dateFromDayFrac(dayfrac, date), dateAfter |-> date]
  /\ UNCHANGED <<spa, out, ui>>

\* Unnormalised longitudes in degrees: the quarter turns from two turns back
\* to twenty turns on that are floats.
LongitudeInputs == { x \in { Rat(90 * k, 1) : k \in -8 .. 80 } : fround(x) = x }

\* heliocentricLongitude in either version, from the unnormalised longitude
\* in degrees on.
CallHeliocentricLongitude ==
  /\ calc = NoCall
  /\ \E x \in LongitudeInputs, byHand \in BOOLEAN :
       calc' = [fn |-> "heliocentricLongitude", x |-> x, byHand |-> byHand,
                result |-> IF byHand THEN heliocentricLongitude_byHand(x)
                           ELSE heliocentricLongitude(x)]
  /\ UNCHANGED <<spa, out, ui>>

CalcInit == calc = NoCall /\ spa = NoSpa /\ out = NoOut /\ NoUi /\ NoUi

CalcNext ==
  \/ CallLimitDegrees
  \/ CallLimitDegrees180pm
  \/ CallDeltaT
  \/ CallJulianDay
  \/ CallJulianCentury
  \/ CallJulianEphemerisCentury
  \/ CallEquationOfTime
  \/ CallLatLngFromAzimuth
  \/ CallThereAndBack
  \/ CallRiseSetInstants
  \/ CallJulianDayTwice
  \/ CallSunHourAngleAtRiseSet
  \/ CallRtsAlphaDeltaPrime \/ CallDateFromDayFrac \/ CallHeliocentricLongitude

CalcSpec == CalcInit /\ [][CalcNext]_vars

(***************************************************************************)
(* Properties of the pure functions (checked under CalcSpec)               *)
(***************************************************************************)
Called(fn) == calc # NoCall /\ calc.fn = fn

\* The quarter index 4 * year + floor(4 * ordinal / days in year) of a date.
QuarterOf(date) ==
  4 * date.year + (4 * ordinal(date)) \div ordinal(utc(date.year, 12, 31))

RowQuarter(row) == 4 * row[1] + row[2] \div 25

FirstQuarter == RowQuarter(deltaTRows[1])

LastQuarter == RowQuarter(deltaTRows[Len(deltaTRows)])

TableValues == { Num(deltaTRows[i][3]) : i \in 1 .. Len(deltaTRows) }

\* C4: for every date whose year and quarter lie within the table's range,
\* 31 December included, deltaT returns the table's entry for
\* year + floor((day of year / days in year) / 0.25) * 0.25, a number.
C4_InRangeIsTableEntry ==
  (Called("deltaT") /\ QuarterOf(calc.date) \in FirstQuarter .. LastQuarter)
    => \E i \in 1 .. Len(deltaTRows) :
         /\ RowQuarter(deltaTRows[i]) = QuarterOf(calc.date)
         /\ calc.result = Num(deltaTRows[i][3])

\* C5: a date before the table's first quarter gets exactly the first
\* entry's value and a date after its last quarter exactly the last entry's
\* value, whatever the number of digits of the year.
C5_ClampsToNearestEnd ==
  Called("deltaT") =>
    /\ QuarterOf(calc.date) < FirstQuarter => calc.result = Num(deltaTRows[1][3])
    /\ QuarterOf(calc.date) > LastQuarter
         => calc.result = Num(deltaTRows[Len(deltaTRows)][3])

\* C6: julianDay(date, dut1) is julianDay of the date shifted by dut1
\* seconds: Delta-UT1 is added to the date before the conversion.
C6_DeltaUT1ShiftsTheDate ==
  (Called("julianDay") /\ calc.delta_ut1.t = "num")
    => calc.result =
         julianDay(plusSeconds(calc.date, calc.delta_ut1.v \div TicksPerSecond), Num(0))

\* C8: julianCentury(jd) = (jd - 2451545) / 36525 = julianEphemerisCentury(jd).
C8_CenturyDivisor ==
  Called("julianCentury")
    => QuotientEq(calc.result, julianEphemerisCentury(calc.jd))

\* x is congruent to y modulo 360, both exact rationals.
Congruent360(x, y) ==
  LET diff == RatSub(x, y) IN diff.d = 1 /\ diff.n % 360 = 0

\* C9: limit_degrees(x) lies in [0, 360), is congruent to x modulo 360, and
\* limit_degrees(limit_degrees(x)) = limit_degrees(x).
C9_LimitDegrees ==
  Called("limit_degrees")
    => /\ RatLeq(Zero, calc.result) /\ RatLess(calc.result, Deg360)
       /\ Congruent360(calc.result, calc.x)
       /\ limit_degrees(calc.result, Deg360) = calc.result

InSignedRange(r) == RatLess(Rat(-180, 1), r) /\ RatLeq(r, Deg180)

\* C10 as stated: limit_degrees180pm(x) lies in (-180, 180] and is congruent
\* to x modulo 360.
C10_SignedExact ==
  Called("limit_degrees180pm")
    => InSignedRange(calc.result) /\ Congruent360(calc.result, calc.x)

\* The rounding of the three operations of limit_degrees180pm: one unit in
\* the last place of x, of the fraction (at most 1) scaled by 360, and of
\* the product (at most 360).
Tolerance(x) == RatMul(RatAdd(RatAbs(x), Rat(720, 1)), Rat(1, Pow2(FloatBits)))

\* C10, amended: limit_degrees180pm(x) lies in (-180, 180] and is within the
\* rounding tolerance of a real number congruent to x modulo 360.
C10_SignedWithinRounding ==
  Called("limit_degrees180pm")
    => /\ InSignedRange(calc.result)
       /\ \E k \in (calc.x.n \div (360 * calc.x.d) - 1) .. (calc.x.n \div (360 * calc.x.d) + 2) :
            RatLeq(RatAbs(RatSub(calc.result, RatSub(calc.x, Rat(360 * k, 1)))),
                   Tolerance(calc.x))

\* A call whose exact image is above 180 came back folded below zero, and
\* rounded: the result is not congruent to x (x = 544 gives -177).
C10_Witness ==
  /\ Called("limit_degrees180pm")
  /\ RatLess(calc.result, Zero)
  /\ RatLess(Deg360, calc.x)
  /\ ~Congruent360(calc.result, calc.x)

\* The raw minutes 4 * (M - 0.0057183 - alpha + nutation) of a call.
RawMinutes == Minutes(4 * (calc.M - calc.alpha), 4 * (calc.nutation - 57183))

InBand(minutes) == MinutesLeq(MinutesAbs(minutes), Minutes(20 * 1000, 0))

\* C11 as stated: equationOfTime returns a value in [-20, 20] minutes for
\* every mean longitude and right ascension in [0, 360).
C11_AlwaysInBand == Called("equationOfTime") => InBand(calc.result)

\* C11: the result is the raw minutes when they are within [-20, 20] and the
\* raw minutes moved by 1440 towards zero otherwise; it lies in [-20, 20]
\* exactly when the raw minutes are within 20 of 0, of 1440 or of -1440.
C11_OneAdjustment ==
  Called("equationOfTime") =>
    /\ InBand(RawMinutes) => calc.result = RawMinutes
    /\ (~InBand(RawMinutes) /\ RawMinutes.milli >= 0)
         => calc.result = MinutesPlus(RawMinutes, -1440)
    /\ (~InBand(RawMinutes) /\ RawMinutes.milli < 0)
         => calc.result = MinutesPlus(RawMinutes, 1440)
    /\ InBand(calc.result)
         <=> \/ InBand(RawMinutes)
             \/ InBand(MinutesPlus(RawMinutes, -1440))
             \/ InBand(MinutesPlus(RawMinutes, 1440))

\* The mean longitude just below 360 and the right ascension just above 0:
\* the raw minutes are near 1440 and the adjustment brings them into the band.
C11_Witness ==
  /\ Called("equationOfTime")
  /\ ~InBand(RawMinutes)
  /\ InBand(calc.result)


\* C12: every point returned by latLngFromAzimuth has its longitude in
\* (-180, 180], for every origin longitude in (-180, 180], every azimuth and
\* distance, the antimeridian crossed or not.
C12_LongitudeNormalized ==
  Called("latLngFromAzimuth")
    => /\ calc.result.lng > MicroDegrees(-180)
       /\ calc.result.lng <= MicroDegrees(180)

\* The larger of the two coordinate differences between the origin and the
\* point the return call gives, in millionths of a degree.
ReturnError ==
  Only({ IF dlat >= dlng THEN dlat ELSE dlng
    : dlat \in {Abs(calc.result.lat - calc.latlng1[1])},
      dlng \in {Abs(calc.result.lng - calc.latlng1[2])} })

\* C17 as stated: going a distance D at azimuth A and coming back the same
\* distance at azimuth (A + 180) mod 360 ends within 1e-6 degree of the
\* origin, for every azimuth and every distance small against the radius.
C17_RoundTrip == Called("latLngFromAzimuth twice") => ReturnError <= 1

\* C17, amended: the round trip ends within 1e-6 degree of the origin for
\* hops of up to a hundred metres; a longer hop that starts off the equator
\* and leaves the meridian ends farther than that from the origin.
C17_ShortRoundTrip ==
  Called("latLngFromAzimuth twice") =>
    /\ calc.dist <= 100 => ReturnError <= 1
    /\ (calc.dist > 100 /\ calc.latlng1[1] # 0 /\ calc.azimuth % 180 # 0)
         => ReturnError > 1

\* A short hop to the east at latitude 60 that moved the longitude and
\* came back to the origin.
C17_Witness ==
  /\ Called("latLngFromAzimuth twice")
  /\ calc.dist <= 100
  /\ calc.there.lng # calc.latlng1[2]
  /\ ReturnError <= 1

\* A millionth of a day, in ticks.
MicroDay == TicksPerDay \div (1000 * 1000)

\* C15: for 2003-10-17T19:30:30 UTC with Delta-UT1 = 0, julianDay returns
\* 2452930.312847 to within 1e-6 day.
C15_ReferenceJulianDay ==
  (Called("julianDay") /\ calc.date = testDate /\ calc.delta_ut1 = Num(0))
    => /\ calc.result.day = 2452930
       /\ Abs(calc.result.tick - 312847 * MicroDay) <= MicroDay

\* julianDay was called for the reference instant with Delta-UT1 = 0 and
\* returned a day count past noon of Julian day 2452930.
C15_Witness ==
  /\ Called("julianDay") /\ calc.date = testDate /\ calc.delta_ut1 = Num(0)
  /\ calc.result.day = 2452930
  /\ calc.result.tick > 0

\* Seconds from 1970-01-01T00:00Z to the instant of a DateTime.
Instant(date) ==
  86400 * DaysFromCivil(date.year, date.month, date.day) + date.second - 60 * date.offset

\* C19: for every result that is not the sentinel the instants are ordered
\* sunRise < sunTransit < sunSet, for every transit fraction m0 in [0, 1)
\* and every hour angle H0 in (0, 180).
C19_RiseTransitSet ==
  Called("sunRiseSetTransit")
    => /\ Instant(calc.result.sunRise) < Instant(calc.result.sunTransit)
       /\ Instant(calc.result.sunTransit) < Instant(calc.result.sunSet)

\* The calendar day of a DateTime in its zone.
LocalDay(date) == <<date.year, date.month, date.day>>

\* The transit falls within three hours of noon on the zone's clock: the
\* zone is one a place of the observer's longitude keeps.
ZoneOfThePlace ==
  /\ calc.result.sunTransit.second >= 9 * 3600
  /\ calc.result.sunTransit.second <= 15 * 3600

\* C20: for a snapshot whose date is calendar day D in the observer's zone,
\* the sunRise and sunSet that sunRiseSetTransit returns fall on local day
\* D, for every zone offset from -12 h to +14 h.
C20_SameLocalDay ==
  (Called("sunRiseSetTransit") /\ ZoneOfThePlace)
    => /\ LocalDay(calc.result.sunRise) = LocalDay(calc.date)
       /\ LocalDay(calc.result.sunSet) = LocalDay(calc.date)

\* C18: julianDay is a continuous day count: for consecutive UTC days at 0 h
\* of the Gregorian era, January and February of the century years
\* included, julianDay(next day) - julianDay(day) = 1.
C18_ContinuousDayCount ==
  Called("julianDay twice")
    => calc.next = [calc.result EXCEPT !.day = @ + 1]

\* C21: sunHourAngleAtRiseSet returns acos(argument) in degrees, a value in
\* [0, 180], whenever |argument| <= 1, the bounds 1 and -1 included, and the
\* sentinel exactly when |argument| > 1; the value returned is >= 0 if and
\* only if |argument| <= 1.
C21_HourAngleIsArcCosine ==
  Called("sunHourAngleAtRiseSet") =>
    IF RatLeq(RatAbs(calc.argument), Rat(1, 1))
    THEN /\ <<calc.argument, calc.result.n>> \in acosRows /\ calc.result.d = 1
         /\ RatLeq(Zero, calc.result) /\ RatLeq(calc.result, Deg180)
    ELSE calc.result = Rat(SENTINEL, 1)

\* The difference x as the interpolation uses it when a difference of two
\* degrees or more is replaced by `wrapped`.
Difference(x, wrapped) == IF RatLeq(Rat(2, 1), RatAbs(x)) THEN wrapped ELSE x

\* x modulo m, exact, in [0, m).
RatMod(x, m) == RatSub(x, RatMul(m, floor(Rat(x.n * m.d, x.d * m.n))))

\* C22 as stated: a difference of two degrees or more is replaced by its
\* value in [0, 360), a smaller one is used as it is, and the result is
\* ad[1] + n * (a + b + (b - a) * n) / 2.
C22_WrappedInto360 ==
  Called("rts_alpha_delta_prime") =>
    calc.result =
      interpolate(calc.ad[2],
                  Difference(RatSub(calc.ad[2], calc.ad[1]),
                             RatMod(RatSub(calc.ad[2], calc.ad[1]), Deg360)),
                  Difference(RatSub(calc.ad[3], calc.ad[2]),
                             RatMod(RatSub(calc.ad[3], calc.ad[2]), Deg360)),
                  calc.n)

\* C22, amended: a difference of two degrees or more is replaced by its
\* fractional part, in [0, 1), a smaller one is used as it is, and the
\* result is ad[1] + n * (a + b + (b - a) * n) / 2.
C22_WrappedIntoOne ==
  Called("rts_alpha_delta_prime") =>
    calc.result =
      interpolate(calc.ad[2],
                  Difference(RatSub(calc.ad[2], calc.ad[1]),
                             RatMod(RatSub(calc.ad[2], calc.ad[1]), Rat(1, 1))),
                  Difference(RatSub(calc.ad[3], calc.ad[2]),
                             RatMod(RatSub(calc.ad[3], calc.ad[2]), Rat(1, 1))),
                  calc.n)

\* An interpolation over a first step of two degrees or more whose result
\* is not the one the raw differences give.
C22_Witness ==
  /\ Called("rts_alpha_delta_prime")
  /\ RatLeq(Rat(2, 1), RatAbs(RatSub(calc.ad[2], calc.ad[1])))
  /\ calc.result # interpolate(calc.ad[2], RatSub(calc.ad[2], calc.ad[1]),
                                RatSub(calc.ad[3], calc.ad[2]), calc.n)


\* C26: dateFromDayFrac(f, date) returns the instant f * 86400 seconds after
\* 0 h UT of the calendar day (year, month, day) that `date` shows in its
\* zone, as a wall clock time of that zone, and leaves `date` as it was.
C26_DayFractionInstant ==
  Called("dateFromDayFrac")
    => /\ Instant(calc.result)
            = Instant(utc(calc.date.year, calc.date.month, calc.date.day))
                + (86400 * calc.dayfrac.n) \div calc.dayfrac.d
       /\ calc.result.offset = calc.date.offset
       /\ calc.result.second \in 0 .. 86399
       /\ calc.dateAfter = calc.date

\* A fraction of a quarter of a day in a zone west of Greenwich: the result
\* falls on the evening before the calendar day of `date`.
C26_Witness ==
  /\ Called("dateFromDayFrac")
  /\ calc.date.offset < 0
  /\ calc.dayfrac = Rat(1, 4)
  /\ calc.result.day = calc.date.day - 1


\* C27: heliocentricLongitude, in the current version and in the earlier one
\* that normalises by hand, returns a value in [0, 360) congruent modulo 360
\* to the unnormalised longitude in degrees, positive or negative.
C27_LongitudeNormalized ==
  Called("heliocentricLongitude")
    => /\ RatLeq(Zero, calc.result) /\ RatLess(calc.result, Deg360)
       /\ Congruent360(calc.result, calc.x)

(***************************************************************************)
(* src/src/map.js: the class Map over Leaflet layers.  A marker, a circle  *)
(* and a polyline keep L.latLng(...) of what they are given: a LatLng      *)
(* object stays, an array [lat, lng] becomes a LatLng.  Coordinates are    *)
(* in 1e-7 degree; an array is the object of its indices "0" and "1".      *)
(***************************************************************************)
\* The array [lat, lng].
Array(lat, lng) == ("0" :> lat) @@ ("1" :> lng)

\* L.latLng(a): a is a LatLng object or an array [lat, lng].
latLng(a) == IF "lat" \in DOMAIN a THEN a ELSE [lat |-> a["0"], lng |-> a["1"]]

\* set observer(latlng) with the polyline left as it was.
setObserver_markersOnly(this, latlng) ==
  [this EXCEPT !._observer = latlng,
               !._observerMarker = latLng(latlng),
               !._observerCircle = latLng(latlng)]

\* new Map(elId, observerLatLng): the two markers, the circle and the
\* polyline are created at this.observer.
newMap(observerLatLng) ==
  [_observer |-> observerLatLng,
   _observerMarker |-> latLng(observerLatLng),
   _observerCircle |-> latLng(observerLatLng),
   _sunsetMarker |-> latLng(observerLatLng),
   _sunsetLine |-> <<latLng(observerLatLng), latLng(observerLatLng)>>]

\* get sunset()
getSunset(this) == this._sunsetMarker

\* get observer()
getObserver(this) == this._observer

\* set sunset(latlng)
setSunset(this, latlng) ==
  [this EXCEPT !._sunsetMarker = latLng(latlng),
               !._sunsetLine = <<latLng(getObserver(this)), latLng(latlng)>>]

\* set observer(latlng)
setObserver(this, latlng) ==
  [this EXCEPT !._observer = latlng,
               !._observerMarker = latLng(latlng),
               !._observerCircle = latLng(latlng),
               !._sunsetLine = <<latLng(latlng), getSunset(this)>>]

\* Points of the map: the observer index.js starts from, the two observers
\* of testCase, and points at or beyond the polar circles and on the date
\* line.
MapPoints ==
  { [lat |-> -446739632, lng |-> 1679256821],
    [lat |-> 657313645, lng |-> 0],
    [lat |-> 670800000, lng |-> 0],
    [lat |-> 397424760, lng |-> -1051786000],
    [lat |-> 377390240, lng |-> -1221899050],
    [lat |-> 800000000, lng |-> 0],
    [lat |-> 0, lng |-> 1800000000],
    [lat |-> -800000000, lng |-> 0] }

\* A point as the caller passes it: a LatLng object or an array [lat, lng].
LatLngArguments == MapPoints \cup { Array(point.lat, point.lng) : point \in MapPoints }

\* map = new Map("mapid", observerLatLng)
NewMap ==
  /\ map = NoMap
  /\ \E observerLatLng \in LatLngArguments : map' = newMap(observerLatLng)
  /\ UNCHANGED <<calc, spa, out, keys, dt, event, page>>

\* map.observer = latlng
AssignObserver ==
  /\ map # NoMap
  /\ \E latlng \in LatLngArguments : map' = setObserver(map, latlng)
  /\ UNCHANGED <<calc, spa, out, keys, dt, event, page>>

\* map.sunset = latlng
AssignSunset ==
  /\ map # NoMap
  /\ \E latlng \in LatLngArguments : map' = setSunset(map, latlng)
  /\ UNCHANGED <<calc, spa, out, keys, dt, event, page>>

MapNext == NewMap \/ AssignObserver \/ AssignSunset

MapSpec == Init /\ [][MapNext]_vars

\* C28: once the Map is constructed, and after any assignments to its
\* observer and sunset properties, the observer marker and the observer
\* circle are at the current observer and the polyline runs from the
\* current observer to the current position of the sunset marker.
C28_ViewModelInvariant ==
  map # NoMap =>
    /\ map._observerMarker = latLng(getObserver(map))
    /\ map._observerCircle = latLng(getObserver(map))
    /\ map._sunsetLine = <<latLng(getObserver(map)), getSunset(map)>>

\* The observer given as an array and moved away from the sunset marker,
\* the polyline following both.
C28_Witness ==
  /\ map # NoMap
  /\ Len(map._sunsetLine) = 2
  /\ "0" \in DOMAIN getObserver(map)
  /\ getSunset(map) # latLng(getObserver(map))
  /\ getSunset(map).lat = 800000000
  /\ map._observerMarker.lat = 397424760

(***************************************************************************)
(* src/src/map.js: `keys` and L.TimeScrollHandler._onWheelScroll.  The     *)
(* value of the input "dt" is a string "yyyy-MM-dd"; the DateTime read     *)
(* from it is 0 h of that day in the browser's zone, whose offset takes    *)
(* no part in the day the handler writes back.                             *)
(***************************************************************************)
\* String.prototype.padStart(len, fill) with a one-character fill.
RECURSIVE padStart(_, _, _)
padStart(s, len, fill) == IF Len(s) >= len THEN s ELSE padStart(<<fill>> \o s, len, fill)

\* date.toFormat("yyyy-MM-dd")
toFormat(date) ==
  padStart(IntToString(date.year), 4, "0") \o <<"-">>
    \o padStart(IntToString(date.month), 2, "0") \o <<"-">>
    \o padStart(IntToString(date.day), 2, "0")

\* The number a string of digits denotes.
RECURSIVE ParseDigits(_)
ParseDigits(s) ==
  IF s = <<>> THEN 0
  ELSE 10 * ParseDigits(SubSeq(s, 1, Len(s) - 1))
         + (CHOOSE k \in 0 .. 9 : DigitChars[k + 1] = s[Len(s)])

\* DateTime.fromFormat(raw, "yyyy-MM-dd", { zone: undefined })
fromFormat(raw) ==
  utc(ParseDigits(SubSeq(raw, 1, 4)), ParseDigits(SubSeq(raw, 6, 7)),
      ParseDigits(SubSeq(raw, 9, 10)))

\* getInputDate("dt"): el.value parsed.
getInputDate(value) == fromFormat(value)

\* setInputDate("dt", date): the new el.value.
setInputDate(date) == toFormat(date)

\* date.plus({ months: n }): the month moved, the day kept up to the length
\* of the month reached.
plusMonths(date, n) ==
  Only({ Only({ [date EXCEPT !.year = first.year, !.month = first.month,
                             !.day = IF date.day < length THEN date.day ELSE length]
      : length \in {DaysFromCivil(first.year + first.month \div 12, (first.month % 12) + 1, 1)
                      - DaysFromCivil(first.year, first.month, 1)} })
    : first \in {[year |-> (12 * date.year + date.month - 1 + n) \div 12,
                  month |-> ((12 * date.year + date.month - 1 + n) % 12) + 1]} })

\* keys[code]: undefined, falsy, until the first event of the key.
Pressed(held, code) == code \in DOMAIN held /\ held[code]

\* _onWheelScroll with the test of the left Shift key left out.
_onWheelScroll_anyKey(held, e, value) ==
  IF e.deltaX = 0 THEN [value |-> value, defaultPrevented |-> FALSE]
  ELSE [value |-> setInputDate(plusDays(getInputDate(value), IF e.deltaX > 0 THEN -1 ELSE 1)),
        defaultPrevented |-> TRUE]

\* L.TimeScrollHandler._onWheelScroll(e) with `keys` as they are and the
\* value of the input: the value it leaves and whether it called
\* e.preventDefault().
_onWheelScroll(held, e, value) ==
  IF ~Pressed(held, "ShiftLeft") THEN [value |-> value, defaultPrevented |-> FALSE]
  ELSE IF e.deltaX = 0 THEN [value |-> value, defaultPrevented |-> FALSE]
  ELSE LET date == getInputDate(value)
           byMonth == \/ Pressed(held, "AltLeft") \/ Pressed(held, "MetaLeft")
                      \/ Pressed(held, "CtrlLeft")
           moved == IF e.deltaX > 0
                    THEN (IF byMonth THEN plusMonths(date, -1) ELSE plusDays(date, -1))
                    ELSE (IF byMonth THEN plusMonths(date, 1) ELSE plusDays(date, 1))
       IN [value |-> setInputDate(moved), defaultPrevented |-> TRUE]

\* KeyboardEvent.code of the keys pressed: the two Shift keys and left Alt.
KeyCodes == {"ShiftLeft", "ShiftRight", "AltLeft"}

\* Horizontal wheel deltas: none, or a notch either way.
WheelDeltas == {-100, 0, 100}

\* The values the input takes: the days from 25 January to 6 March 2019.
InputDays == { toFormat(plusDays(utc(2019, 1, 25), k)) : k \in 0 .. 40 }

\* window.onkeydown
KeyDown ==
  /\ dt # NoInput
  /\ \E code \in KeyCodes :
       /\ keys' = (code :> TRUE) @@ keys
       /\ event' = [type |-> "keydown", code |-> code]
  /\ UNCHANGED <<calc, spa, out, map, dt, page>>

\* window.onkeyup
KeyUp ==
  /\ dt # NoInput
  /\ \E code \in KeyCodes :
       /\ keys' = (code :> FALSE) @@ keys
       /\ event' = [type |-> "keyup", code |-> code]
  /\ UNCHANGED <<calc, spa, out, map, dt, page>>

\* A wheel event on the map: _onWheelScroll(e).
WheelScroll ==
  /\ dt # NoInput
  /\ \E deltaX \in WheelDeltas :
       \E done \in { _onWheelScroll(keys, [deltaX |-> deltaX], dt) } :
         /\ done.value \in InputDays
         /\ dt' = done.value
         /\ event' = [type |-> "wheel", deltaX |-> deltaX,
                      defaultPrevented |-> done.defaultPrevented]
  /\ UNCHANGED <<calc, spa, out, map, keys, page>>

\* The page with its input set to a day, and no key event yet.
ScrollInit ==
  /\ calc = NoCall /\ spa = NoSpa /\ out = NoOut
  /\ map = NoMap /\ page = NoPage
  /\ keys = NoKeys /\ event = NoEvent
  /\ dt \in { toFormat(utc(2019, 1, 31)), toFormat(utc(2019, 2, 14)) }

ScrollNext == KeyDown \/ KeyUp \/ WheelScroll

ScrollSpec == ScrollInit /\ [][ScrollNext]_vars

\* C29: a wheel event changes the date input, or has its default prevented,
\* only when the last event of the left Shift key was a keydown and the
\* wheel delta is not zero; every other wheel event, after any key and
\* wheel events, leaves the input as it was and its default in place.
C29_OnlyWithLeftShift ==
  [][event'.type = "wheel" =>
       \/ Pressed(keys, "ShiftLeft") /\ event'.deltaX # 0
       \/ dt' = dt /\ ~event'.defaultPrevented]_vars

\* A wheel event with left Shift and left Alt down: the input has moved
\* from 31 January to the last day of February.
C29_Witness ==
  /\ event.type = "wheel" /\ event.defaultPrevented
  /\ Pressed(keys, "ShiftLeft") /\ Pressed(keys, "AltLeft")
  /\ dt = toFormat(utc(2019, 2, 28))

(***************************************************************************)
(* src/src/index.js: the module state (startPoint, date, spa, sunsetTime,  *)
(* sunsetLatLng and the four overlays) and onMapClick.  Coordinates are in *)
(* 1e-7 degree.                                                            *)
(***************************************************************************)
\* <<year, month, day, latitude, longitude, seconds>>: the day fraction of
\* sun_rise_and_set(..., 2) in sunRiseSetTransit, in whole seconds after
\* 0 h UT, for a snapshot of that calendar day and place.
sunSetRows ==
  {
    <<2003, 10, 16, 377390240, -1221899050, 5499>>,
    <<2003, 10, 16, 397424760, -1051786000, 1307>>,
    <<2003, 10, 17, -446739632, 1679256821, 26108>>,
    <<2003, 10, 17, 0, 0, 64125>>,
    <<2003, 10, 17, 377390240, -1221899050, 5416>>,
    <<2003, 10, 17, 397424760, -1051786000, 1219>>,
    <<2003, 10, 17, 657313645, 0, 59355>>,
    <<2003, 10, 17, 670800000, 0, 59034>>,
    <<2003, 10, 17, 800000000, 0, 50302>>,
    <<2019, 5, 31, 377390240, -1221899050, 12211>>,
    <<2019, 5, 31, 397424760, -1051786000, 8472>>,
    <<2019, 6, 1, -446739632, 1679256821, 19038>>,
    <<2019, 6, 1, 0, 0, 64886>>,
    <<2019, 6, 1, 377390240, -1221899050, 12252>>,
    <<2019, 6, 1, 397424760, -1051786000, 8516>>,
    <<2019, 6, 1, 657313645, 0, 81449>>,
    <<2019, 6, 20, 377390240, -1221899050, 12809>>,
    <<2019, 6, 20, 397424760, -1051786000, 9102>>,
    <<2019, 6, 21, -446739632, 1679256821, 18845>>,
    <<2019, 6, 21, 0, 0, 65125>>,
    <<2019, 6, 21, 377390240, -1221899050, 12823>>,
    <<2019, 6, 21, 397424760, -1051786000, 9117>>,
    <<2019, 6, 22, -446739632, 1679256821, 18858>>,
    <<2019, 6, 22, 0, 0, 65138>>,
    <<2019, 6, 22, 377390240, -1221899050, 12836>>,
    <<2019, 6, 22, 397424760, -1051786000, 9130>>,
    <<2019, 9, 27, 377390240, -1221899050, 7178>>,
    <<2019, 9, 27, 397424760, -1051786000, 3087>>,
    <<2019, 9, 28, -446739632, 1679256821, 24685>>,
    <<2019, 9, 28, 0, 0, 64438>>,
    <<2019, 9, 28, 377390240, -1221899050, 7086>>,
    <<2019, 9, 28, 397424760, -1051786000, 2989>>,
    <<2019, 9, 28, 657313645, 0, 63603>>,
    <<2019, 9, 28, 670800000, 0, 63555>>,
    <<2019, 9, 28, 800000000, 0, 62523>>,
    <<2019, 12, 20, 377390240, -1221899050, 3147>>,
    <<2019, 12, 21, -446739632, 1679256821, 30799>>,
    <<2019, 12, 21, 0, 0, 64899>>,
    <<2019, 12, 21, 377390240, -1221899050, 3174>>,
    <<2019, 12, 21, 397424760, -1051786000, 85164>>,
    <<2019, 12, 21, 657313645, 0, 48513>>,
    <<2019, 12, 21, 670800000, 0, 45505>>
  }

\* sunRiseSetTransit(this).sunSet from the solver's return `made`: the
\* sentinel, or dateFromDayFrac(dayfrac, this.date) at the day fraction of
\* the snapshot's calendar day and place.
sunSetOf(this, made) ==
  IF made.result.sunSet = Num(SENTINEL) THEN Num(SENTINEL)
  ELSE Only({ setZone(plusSeconds(startOfDay(this.date), row[6]), this.date.offset)
         : row \in { r \in sunSetRows :
                       /\ <<r[1], r[2], r[3]>> = <<this.date.year, this.date.month, this.date.day>>
                       /\ <<r[4], r[5]>> = <<this.latitude.v, this.longitude.v>> } })

\* The points clicked: the start point of index.js, the two observers of
\* testCase, a point on the equator, and three at or beyond the polar
\* circle; each with the zone tzlookup gives for it.
zoneRows ==
  { <<-446739632, 1679256821, "Pacific/Auckland">>,
    <<397424760, -1051786000, "America/Denver">>,
    <<377390240, -1221899050, "America/Los_Angeles">>,
    <<0, 0, "Etc/GMT">>,
    <<800000000, 0, "Etc/GMT">>,
    <<670800000, 0, "Etc/GMT">>,
    <<657313645, 0, "Etc/GMT">> }

\* tzlookup(lat, lng) of the package tz-lookup.
tzlookup(lat, lng) ==
  Only({ row[3] : row \in { r \in zoneRows : r[1] = lat /\ r[2] = lng } })

\* The offset of a zone, in minutes east of UTC, on the days drawn: New
\* Zealand keeps summer time from October to March, the United States from
\* March to October.
offsetIn(zone, date) ==
  CASE zone = "Pacific/Auckland" -> IF date.month \in 4 .. 9 THEN 720 ELSE 780
    [] zone = "America/Denver" -> IF date.month \in {11, 12, 1, 2} THEN -420 ELSE -360
    [] zone = "America/Los_Angeles" -> IF date.month \in {11, 12, 1, 2} THEN -480 ELSE -420
    [] OTHER -> 0

\* date.setZone(zone, { keepLocalTime: true })
setZone_keepLocalTime(date, zone) == [date EXCEPT !.offset = offsetIn(zone, date)]

\* limitLatLng of onMapClick: limit_degrees180pm of either coordinate, for
\* a coordinate within [-180, 180] degrees: -180 becomes 180, any other
\* stays.
limitLatLng(latlng) ==
  [lat |-> IF latlng.lat = -180 * DegreeUnits THEN 180 * DegreeUnits ELSE latlng.lat,
   lng |-> IF latlng.lng = -180 * DegreeUnits THEN 180 * DegreeUnits ELSE latlng.lng]

\* new SPA(date, lat, lng, elev, temp, pressure) as index.js calls it;
\* with the number -99999 for a date, julianDay's date.toUTC() is a
\* TypeError.
newSPA(date, latlng) ==
  IF "t" \in DOMAIN date THEN [status |-> "threw", error |-> "TypeError"]
  ELSE SPA(date, Num(latlng.lat), Num(latlng.lng), Num(100 * elev), Num(temp),
           Num(pressure), Undefined, Undefined)

\* latLngFromAzimuth([lat, lng], dist20m * 1000, spa.azimuth, 0): the point
\* at the horizon distance from the observer towards the azimuth of the
\* snapshot.
sunsetLatLngOf(latlng, this) ==
  [from |-> Array(latlng.lat, latlng.lng), azimuth |-> this.azimuth]

\* onMapClick from spaObsPoint.setLatLng(newLatLng) to its end.
onMapClick_overlays(p, newLatLng) ==
  Only({ [p EXCEPT !.spaObsPoint = latLng(newLatLng),
                   !.horiz20m = latLng(newLatLng),
                   !.sunsetLatLng = sunsetLatLng,
                   !.sunsetPoint = sunsetLatLng,
                   !.connector = <<latLng(newLatLng), sunsetLatLng>>]
    : sunsetLatLng \in {sunsetLatLngOf(newLatLng, p.spa)} })

\* onMapClick from the second `spa = new SPA(sunsetTime, ...)` on: the
\* module state it leaves and whether it returned or threw.
onMapClick_atSunset(p, newLatLng) ==
  Only({ IF again.status = "threw" THEN [page |-> p, status |-> "threw"]
         ELSE Only({ IF solved.status = "threw"
                     THEN [page |-> [p EXCEPT !.spa = again.this], status |-> "threw"]
                     ELSE [page |-> onMapClick_overlays(
                                      [p EXCEPT !.spa = again.this,
                                                !.sunsetTime = sunSetOf(again.this, solved)],
                                      newLatLng),
                           status |-> "returned"]
                : solved \in {sunRiseSetTransit(again.this)} })
    : again \in {newSPA(p.sunsetTime, newLatLng)} })

\* onMapClick(e) with newLatLng = e.latlng: the assignments in their order,
\* up to the first that throws.
onMapClick(p, newLatLng) ==
  Only({ Only({ IF made.status = "threw" THEN [page |-> moved, status |-> "threw"]
         ELSE Only({ IF solved.status = "threw"
                     THEN [page |-> [moved EXCEPT !.spa = made.this], status |-> "threw"]
                     ELSE onMapClick_atSunset(
                            [moved EXCEPT !.spa = made.this,
                                          !.sunsetTime = sunSetOf(made.this, solved)],
                            newLatLng)
                : solved \in {sunRiseSetTransit(made.this)} })
      : made \in {newSPA(moved.date, newLatLng)} })
    : moved \in {[p EXCEPT !.startPoint = newLatLng,
                           !.date = setZone_keepLocalTime(
                                      p.date, tzlookup(limitLatLng(newLatLng).lat,
                                                       limitLatLng(newLatLng).lng))]} })

\* The start point of index.js: observerLat, observerLong.
observer == [lat |-> -446739632, lng |-> 1679256821]

\* The module body of index.js for `new Date()` = now: date in the zone of
\* the start point, the snapshot at the sunset of the day, the overlays.
loadPage(now) ==
  Only({ Only({ Only({ Only({
      onMapClick_overlays(
        [startPoint |-> Array(observer.lat, observer.lng), date |-> date, spa |-> atSunset.this,
         sunsetTime |-> sunSetOf(first.this, solved), sunsetLatLng |-> Null,
         spaObsPoint |-> Null, horiz20m |-> Null, sunsetPoint |-> Null, connector |-> Null],
        observer)
        : atSunset \in {newSPA(sunSetOf(first.this, solved), observer)} })
      : solved \in {sunRiseSetTransit(first.this)} })
      : first \in {newSPA(date, observer)} })
    : date \in {setZone_keepLocalTime(now, tzlookup(observer.lat, observer.lng))} })

\* The wall clock of the start point when the page is loaded.
LoadDates ==
  { [year |-> 2003, month |-> 10, day |-> 17, second |-> 70230, offset |-> 0],
    [year |-> 2019, month |-> 9, day |-> 28, second |-> 65220, offset |-> 0],
    [year |-> 2019, month |-> 6, day |-> 21, second |-> 43200, offset |-> 0],
    [year |-> 2019, month |-> 6, day |-> 22, second |-> 43200, offset |-> 0],
    [year |-> 2019, month |-> 6, day |-> 1, second |-> 43200, offset |-> 0],
    [year |-> 2019, month |-> 12, day |-> 21, second |-> 43200, offset |-> 0],
    [year |-> 2019, month |-> 12, day |-> 21, second |-> 21600, offset |-> 0],
    [year |-> 2019, month |-> 6, day |-> 1, second |-> 21600, offset |-> 0] }

ClickPoints == { [lat |-> row[1], lng |-> row[2]] : row \in zoneRows }

\* A click on the map: onMapClick(e).
MapClick ==
  /\ page # NoPage
  /\ \E latlng \in ClickPoints :
       \E done \in { onMapClick(page, latlng) } :
         /\ page' = done.page
         /\ event' = [type |-> "click", latlng |-> latlng, status |-> done.status]
  /\ UNCHANGED <<calc, spa, out, map, keys, dt>>

\* The page once index.js has run.
PageInit ==
  /\ calc = NoCall /\ spa = NoSpa /\ out = NoOut
  /\ map = NoMap /\ keys = NoKeys /\ dt = NoInput /\ event = NoEvent
  /\ page \in { loadPage(now) : now \in LoadDates }

PageNext == MapClick

PageSpec == PageInit /\ [][PageNext]_vars

\* The zone of the date, the snapshot and the four overlays are those of
\* the point.
RefersTo(p, latlng) ==
  /\ p.date.offset = offsetIn(tzlookup(latlng.lat, latlng.lng), p.date)
  /\ p.spa.latitude = Num(latlng.lat) /\ p.spa.longitude = Num(latlng.lng)
  /\ p.spaObsPoint = latlng /\ p.horiz20m = latlng
  /\ p.sunsetPoint = sunsetLatLngOf(latlng, p.spa)
  /\ p.connector = <<latlng, p.sunsetPoint>>

\* C30: onMapClick is all-or-nothing: for every point clicked it either
\* returns, and the zone of the date, the snapshot, the observer marker,
\* the horizon circle, the sunset marker and the connector are those of the
\* point, or it throws and startPoint, date, spa and the overlays are as
\* they were.
C30_AllOrNothing ==
  [][event'.type = "click" =>
       IF event'.status = "returned" THEN RefersTo(page', event'.latlng)
       ELSE page' = page]_vars

====
